---- MODULE Spec2Model ----
(***************************************************************************)
(* Scan pipeline of the deal finder: the request handlers that trigger     *)
(* scans (cron sweep, manual scan), processSearch / processAllSearches,    *)
(* the browser singleton of the acquisition adapter, the evaluator's       *)
(* post-processing of the model reply and the notifier's result.  Each     *)
(* request runs as an asynchronous task; a task gives up control only at   *)
(* an await, so one action covers the code between two awaits.             *)
(***************************************************************************)
EXTENDS Integers, Sequences, FiniteSets, TLC

----------------------------------------------------------------------------
(* Bounds of the model *)

MaxSweeps == 1        \* cron requests in a behaviour
MaxManualScans == 1   \* manual scan requests in a behaviour
MaxCandidates == 1    \* length of one acquisition result
MaxUserOps == 1       \* PATCH / DELETE requests in a behaviour
MaxSerialScans == 2   \* manual scan requests when requests are served in turn
MaxSerialCandidates == 2  \* length of an acquisition result, served in turn
MaxRawScore == 150    \* largest raw score the model reply may carry
MaxTeardownSweeps == 3    \* cron requests, sweeps served in turn
MaxTeardownUserOps == 3   \* PATCH requests between those sweeps
MaxPageRows == 17     \* result rows on one search page of the marketplace
MaxDollars == 1300    \* largest price, in whole dollars, a result row shows

CronTasks == {"cron"}           \* tasks serving /api/cron
ManualTasks == {"manual"}       \* tasks serving POST /api/searches/[id]
Proc == CronTasks \cup ManualTasks
SearchOrder == <<"s1", "s2">>   \* Search rows present after construction
SearchIds == {SearchOrder[k] : k \in 1 .. Len(SearchOrder)}
ManualTargets == {"s1"}         \* searches the manual scan requests name
ExternalIds == {"e1", "e2"}     \* marketplace posting ids

NoSearch == "none"

\* A scan is identified by the task and the number of the processSearch call
\* within the task; rows, browsers and timestamps are named after the scan
\* that made them.
NoScan == [task |-> "none", n |-> 0]
NULL == NoScan                   \* browserInstance = null, lastChecked = null

----------------------------------------------------------------------------
(* JavaScript numbers as far as the evaluator needs them: an integer or NaN *)

NaN == [nan |-> TRUE, v |-> 0]
Num(n) == [nan |-> FALSE, v |-> n]

\* a >= b of JavaScript: false as soon as one side is NaN
GE(a, b) == ~a.nan /\ ~b.nan /\ a.v >= b.v

MathMin(a, b) == IF a.nan \/ b.nan THEN NaN ELSE IF a.v < b.v THEN a ELSE b

MathMax(a, b) == IF a.nan \/ b.nan THEN NaN ELSE IF a.v > b.v THEN a ELSE b

\* Math.round of a parsed JSON value.  A number is given in halves (h = 2x),
\* Math.round(x) = floor(x + 0.5); null converts to 0; undefined (field
\* missing) and a non-numeric string convert to NaN.
MathRound(x) ==
    CASE x.t = "num" -> Num((x.h + 1) \div 2)
      [] x.t = "null" -> Num(0)
      [] OTHER -> NaN

----------------------------------------------------------------------------
(* Evaluator: ai-evaluator.ts *)

GOOD_DEAL_THRESHOLD == 70

FALLBACK ==
    [score |-> Num(50), isGoodDeal |-> FALSE, condition |-> "unknown",
     identifiedProduct |-> "null", retailPriceRange |-> "null"]

\* evaluation.score = Math.max(1, Math.min(100, Math.round(evaluation.score)))
ClampScore(raw) == MathMax(Num(1), MathMin(Num(100), MathRound(raw)))

\* variant: the flag of the model is kept
TrustReportedFlag(score, reported) == reported

\* evaluation.isGoodDeal = evaluation.score >= 70
DeriveGoodDeal(score, reported) == GE(score, Num(GOOD_DEAL_THRESHOLD))

\* variant: JSON.parse runs outside the try
ParseFailsUncaught(reply) == reply.kind \in {"throws", "nojson"}

\* the reply of the model call: it throws, carries no {...}, carries a
\* malformed {...}, or carries a JSON object
ParseFails(reply) == reply.kind \in {"throws", "nojson", "malformed"}

evaluateListing(reply) ==
    IF ParseFails(reply)
    THEN FALLBACK
    ELSE LET score == ClampScore(reply.score) IN
         [score |-> score,
          isGoodDeal |-> DeriveGoodDeal(score, reply.isGoodDeal),
          condition |-> reply.condition,
          identifiedProduct |-> reply.identifiedProduct,
          retailPriceRange |-> reply.retailPriceRange]

JsonReply(s, flag) ==
    [kind |-> "json", score |-> s, isGoodDeal |-> flag, condition |-> "good",
     identifiedProduct |-> "prod", retailPriceRange |-> "range"]

FailReply(k) ==
    [kind |-> k, score |-> [t |-> "undef", h |-> 0], isGoodDeal |-> FALSE,
     condition |-> "none", identifiedProduct |-> "null",
     retailPriceRange |-> "null"]

RawScores ==
    {[t |-> "num", h |-> h] : h \in -2 .. 2 * MaxRawScore}
      \cup {[t |-> "undef", h |-> 0], [t |-> "null", h |-> 0],
            [t |-> "str", h |-> 0]}

\* the condition a JSON reply may carry: a label of the prompt, another
\* wording, or none ("undefined")
ReplyConditions ==
    {"excellent", "good", "fair", "poor", "unknown", "like new", "undefined"}

JsonReplyWith(s, flag, c) == [JsonReply(s, flag) EXCEPT !.condition = c]

\* every reply the evaluator is checked against
RawOutputs ==
    {FailReply(k) : k \in {"throws", "nojson", "malformed"}}
      \cup {JsonReply(s, f) : s \in RawScores, f \in BOOLEAN}
      \cup {JsonReplyWith([t |-> "num", h |-> 160], TRUE, c) :
               c \in ReplyConditions}

\* the replies a scan of the model draws from: the three failures, a fair
\* score (60) the model calls a good deal, and a score (69.5) that rounds up
\* to the threshold while the model calls it no deal
ScanReplies ==
    {FailReply("throws"), FailReply("nojson"), FailReply("malformed"),
     JsonReply([t |-> "num", h |-> 120], TRUE),
     JsonReply([t |-> "num", h |-> 139], FALSE)}

----------------------------------------------------------------------------
(* State *)

VARIABLES
    env,              \* process.env: which credentials are configured
    searches,         \* Search table: id -> [exists, isActive, lastChecked]
    listingTbl,       \* Listing table: a set of rows
    browserInstance,  \* the browser singleton (NULL or a browser id)
    openBrowsers,     \* launched browsers not yet closed
    rateLimitStore,   \* identifier -> requests counted in its window
    emails,           \* the alert emails the provider has accepted so far
    pc,               \* where each task is suspended
    loc,              \* the local variables of each task
    scans,            \* task -> processSearch calls it has made so far
    sweeps,           \* cron requests so far
    manuals,          \* manual scan requests so far
    userOps,          \* PATCH / DELETE requests so far
    evalIn,           \* evaluator check: the model reply
    evalOut,          \* evaluator check: <<>> or <<the assessment returned>>
    callIn,           \* function check: the arguments of the call
    callOut,          \* function check: <<>> or the record the call produced
    now,              \* Date.now(), in milliseconds
    served,           \* the requests answered so far, in order
    conversation      \* the Conversation row of the chat

vars ==
    <<env, searches, listingTbl, browserInstance, openBrowsers,
      rateLimitStore, emails, pc, loc, scans, sweeps, manuals,
      userOps, evalIn, evalOut, callIn, callOut, now, served, conversation>>

dbVars == <<searches, listingTbl>>
browserVars == <<browserInstance, openBrowsers>>
NoCall == [fn |-> "none"]

evalVars == <<evalIn, evalOut, callIn, callOut>>
requestVars == <<now, served, conversation>>

\* no Conversation row yet
NoConversation == [stored |-> FALSE]

\* the clock at its origin, no request answered, no conversation
NoRequests ==
    /\ now = 0
    /\ served = <<>>
    /\ conversation = NoConversation

ZeroCounts == [newListings |-> 0, goodDeals |-> 0, alertsSent |-> 0]

InitLocal ==
    [mode |-> "none", sid |-> NoSearch, scanNo |-> NoScan, browser |-> NULL,
     listings |-> <<>>, i |-> 1, newListings |-> 0, goodDeals |-> 0,
     dealsToAlert |-> <<>>, evaluation |-> FALLBACK, result |-> ZeroCounts,
     activeSearches |-> <<>>, bi |-> 1, totals |-> ZeroCounts,
     \* observations kept for the properties, never read by an action
     reply |-> FailReply("none"), created |-> <<>>, notified |-> <<>>,
     attempted |-> <<>>, outcomes |-> <<>>, closeCalls |-> 0,
     context |-> "none", reached |-> TRUE]

\* the configurations of process.env the model starts from
EnvConfigs ==
    {[GEMINI_API_KEY |-> TRUE, RESEND_API_KEY |-> TRUE, CRON_SECRET |-> TRUE,
      production |-> TRUE],
     [GEMINI_API_KEY |-> FALSE, RESEND_API_KEY |-> TRUE, CRON_SECRET |-> FALSE,
      production |-> TRUE],
     [GEMINI_API_KEY |-> TRUE, RESEND_API_KEY |-> FALSE, CRON_SECRET |-> FALSE,
      production |-> FALSE]}

ScanIdentifiers == {"scan:ip", "scan:email"}

Init ==
    /\ env \in EnvConfigs
    /\ searches = [s \in SearchIds |->
                      [exists |-> TRUE, isActive |-> TRUE, lastChecked |-> NULL]]
    /\ listingTbl = {}
    /\ browserInstance = NULL
    /\ openBrowsers = {}
    /\ rateLimitStore = [k \in ScanIdentifiers |-> 0]
    /\ emails = {}
    /\ pc = [p \in Proc |-> "idle"]
    /\ loc = [p \in Proc |-> InitLocal]
    /\ scans = [p \in Proc |-> 0]
    /\ sweeps = 0
    /\ manuals = 0
    /\ userOps = 0
    /\ evalIn = FailReply("throws")
    /\ evalOut = <<>>
    /\ callIn = NoCall
    /\ callOut = <<>>
    /\ NoRequests

----------------------------------------------------------------------------
(* Persistence *)

FindListing(s, e) == {r \in listingTbl : r.searchId = s /\ r.externalId = e}

\* variant: the loop does not look the candidate up
NeverStored(s, e) == FALSE

\* prisma.listing.findUnique({searchId_externalId}) found a row
ExistingListing(s, e) == FindListing(s, e) # {}

\* variant: the table has no unique index
NoUniqueIndex(s, e) == FALSE

\* the unique index Listing_searchId_externalId_key rejects the insert
UniqueViolation(s, e) == FindListing(s, e) # {}

\* the foreign key Listing_searchId_fkey rejects the insert
ForeignKeyViolation(s) == ~searches[s].exists

\* variant: the foreign key is declared without ON DELETE CASCADE, SQLite
\* not enforcing it
KeepListings(id) == listingTbl

\* ON DELETE CASCADE of Listing_searchId_fkey: the rows left when Search id
\* is deleted
CascadeDelete(id) == {r \in listingTbl : r.searchId # id}

\* variant: only a missing search ends the scan early
IgnoreActiveFlag(s) == searches[s].exists

\* if (!search || !search.isActive) is false
SearchUsable(s) == searches[s].exists /\ searches[s].isActive

\* where: {isActive: true} of findMany in processAllSearches
IsActiveRow(s) == searches[s].exists /\ searches[s].isActive

\* variant: the update is not scoped to the search
UnscopedMarkFilter(r, s) == r.isGoodDeal /\ ~r.alertSent

\* where clause of prisma.listing.updateMany in processSearch
MarkFilter(r, s) == r.searchId = s /\ r.isGoodDeal /\ ~r.alertSent

\* findMany({where: {isActive: true}}), in the order of the table
ActiveSearches == SelectSeq(SearchOrder, IsActiveRow)

RECURSIVE SeqsUpTo(_, _)
SeqsUpTo(S, n) ==
    IF n = 0 THEN {<<>>}
    ELSE LET shorter == SeqsUpTo(S, n - 1) IN
         shorter \cup {Append(q, x) : q \in {t \in shorter : Len(t) = n - 1},
                                      x \in S}

\* what an acquisition can return: external ids in result order
CandidateLists == SeqsUpTo(ExternalIds, MaxCandidates)

SerialCandidateLists == SeqsUpTo(ExternalIds, MaxSerialCandidates)

AddCounts(a, b) ==
    [newListings |-> a.newListings + b.newListings,
     goodDeals |-> a.goodDeals + b.goodDeals,
     alertsSent |-> a.alertsSent + b.alertsSent]

----------------------------------------------------------------------------
(* Rate limiter and request authorisation *)

SCAN_MAX_REQUESTS == 5

\* checkRateLimit within one window (the window of an identifier opens with
\* its first request and does not expire within the modelled horizon)
RateAllowed(store, k) == store[k] < SCAN_MAX_REQUESTS

RateCount(store, k) ==
    IF RateAllowed(store, k) THEN [store EXCEPT ![k] = @ + 1] ELSE store

\* variant: the header Vercel adds to its cron calls passes the first guard
VercelHeaderSuffices(authMatches, vercelCronHeader) ==
    /\ ~(env.CRON_SECRET /\ ~authMatches /\ ~vercelCronHeader)
    /\ ~(~env.CRON_SECRET /\ ~vercelCronHeader /\ env.production)

\* the two guards of GET /api/cron
CronAuthorized(authMatches, vercelCronHeader) ==
    /\ ~(env.CRON_SECRET /\ ~authMatches)
    /\ ~(~env.CRON_SECRET /\ ~vercelCronHeader /\ env.production)

----------------------------------------------------------------------------
(* processSearch *)

ScanPcs ==
    {"ps_find", "ps_launch", "ps_ctx", "ps_scrape", "ps_loop", "ps_eval",
     "ps_create",
     "ps_email", "ps_mark"}

\* the locals of task p when it calls processSearch(s)
CallProcessSearch(p, l, s) ==
    [l EXCEPT !.sid = s, !.scanNo = [task |-> p, n |-> scans[p] + 1],
              !.browser = NULL,
              !.listings = <<>>, !.i = 1, !.newListings = 0, !.goodDeals = 0,
              !.dealsToAlert = <<>>, !.evaluation = FALLBACK,
              !.result = ZeroCounts, !.reply = FailReply("none"),
              !.created = <<>>, !.notified = <<>>,
              !.context = "none", !.reached = TRUE]

\* processSearch returns r
Returns(p, l, r) ==
    /\ pc' = [pc EXCEPT ![p] = "ps_ret"]
    /\ loc' = [loc EXCEPT ![p] = [l EXCEPT !.result = r]]

\* processSearch throws
Throws(p, l) ==
    /\ pc' = [pc EXCEPT ![p] = "ps_threw"]
    /\ loc' = [loc EXCEPT ![p] = [l EXCEPT !.result = ZeroCounts]]

\* POST /api/searches/[id]: rate limits, 404 for a missing search, then
\* processSearch(id) up to its first await
ManualScanRequest(p, id) ==
    /\ pc[p] = "idle"
    /\ manuals' = manuals + 1
    /\ LET ipOk == RateAllowed(rateLimitStore, "scan:ip")
           store1 == RateCount(rateLimitStore, "scan:ip")
           found == ipOk /\ searches[id].exists
           userOk == found /\ RateAllowed(store1, "scan:email")
       IN /\ rateLimitStore' =
                 IF found THEN RateCount(store1, "scan:email") ELSE store1
          /\ IF userOk
             THEN /\ pc' = [pc EXCEPT ![p] = "ps_find"]
                  /\ loc' = [loc EXCEPT ![p] =
                                CallProcessSearch(p,
                                                  [@ EXCEPT !.mode = "manual"],
                                                  id)]
                  /\ scans' = [scans EXCEPT ![p] = @ + 1]
             ELSE UNCHANGED <<pc, loc, scans>>
    /\ UNCHANGED <<env, dbVars, browserVars, emails, sweeps, userOps,
                   evalVars,
                   requestVars>>

\* lines 14-30: load the search; getBrowser() up to its await
PsLoad(p) ==
    /\ pc[p] = "ps_find"
    /\ IF ~SearchUsable(loc[p].sid)
       THEN Returns(p, loc[p], ZeroCounts)
       ELSE IF browserInstance = NULL
       THEN /\ pc' = [pc EXCEPT ![p] = "ps_launch"]
            /\ UNCHANGED loc
       ELSE /\ pc' = [pc EXCEPT ![p] = "ps_ctx"]
            /\ loc' = [loc EXCEPT ![p].browser = browserInstance]
    /\ UNCHANGED <<env, dbVars, browserVars, rateLimitStore, emails, scans,
                   sweeps, manuals, userOps, evalVars,
                   requestVars>>

\* getBrowser: chromium.launch() resolved, the singleton is assigned
PsLaunched(p) ==
    /\ pc[p] = "ps_launch"
    /\ browserInstance' = loc[p].scanNo
    /\ openBrowsers' = openBrowsers \cup {loc[p].scanNo}
    /\ pc' = [pc EXCEPT ![p] = "ps_ctx"]
    /\ loc' = [loc EXCEPT ![p].browser = loc[p].scanNo]
    /\ UNCHANGED <<env, dbVars, rateLimitStore, emails, scans, sweeps, manuals,
                   userOps, evalVars,
                   requestVars>>

\* browser.newContext() and newPage(): outside the try, so a closed browser
\* makes fetchCraigslistListings, and with it processSearch, throw
PsNewContext(p) ==
    /\ pc[p] = "ps_ctx"
    /\ IF loc[p].browser \in openBrowsers
       THEN /\ pc' = [pc EXCEPT ![p] = "ps_scrape"]
            /\ loc' = [loc EXCEPT ![p].context = "open"]
       ELSE Throws(p, loc[p])
    /\ UNCHANGED <<env, dbVars, browserVars, rateLimitStore, emails, scans,
                   sweeps, manuals, userOps, evalVars,
                   requestVars>>

\* variant: the scan goes on to evaluate without the credential
CredentialUnchecked(e) == FALSE

\* const apiKey = process.env.GEMINI_API_KEY; if (!apiKey) return zeros
CredentialMissing(e) == ~e.GEMINI_API_KEY

\* the try/catch of fetchCraigslistListings: the candidates found, or []
\* when the page was not reached (goto timeout, selector never there)
Fetched(reached, found) == IF reached THEN found ELSE <<>>

\* the try block of fetchCraigslistListings (never reached once the browser
\* was closed under it), its catch and finally context.close(); back in
\* processSearch the credential check
PsScrape(p, reached, found) ==
    /\ pc[p] = "ps_scrape"
    /\ reached => loc[p].browser \in openBrowsers
    /\ ~reached => found = <<>>
    /\ LET l == [loc[p] EXCEPT !.listings = Fetched(reached, found),
                               !.reached = reached,
                               !.context = "closed"]
       IN IF CredentialMissing(env)
          THEN Returns(p, l, ZeroCounts)
          ELSE /\ pc' = [pc EXCEPT ![p] = "ps_loop"]
               /\ loc' = [loc EXCEPT ![p] = l]
    /\ UNCHANGED <<env, dbVars, browserVars, rateLimitStore, emails, scans,
                   sweeps, manuals, userOps, evalVars,
                   requestVars>>

\* one findUnique of the loop: skip a stored candidate; for a new one,
\* call evaluateListing, which awaits the model
PsFindExisting(p) ==
    /\ pc[p] = "ps_loop"
    /\ loc[p].i <= Len(loc[p].listings)
    /\ IF ExistingListing(loc[p].sid, loc[p].listings[loc[p].i])
       THEN /\ loc' = [loc EXCEPT ![p].i = @ + 1]
            /\ UNCHANGED pc
       ELSE /\ pc' = [pc EXCEPT ![p] = "ps_eval"]
            /\ UNCHANGED loc
    /\ UNCHANGED <<env, dbVars, browserVars, rateLimitStore, emails, scans,
                   sweeps, manuals, userOps, evalVars,
                   requestVars>>

\* the model has replied (or the call has failed): evaluateListing returns
\* its assessment to the loop
PsEvaluated(p, reply) ==
    /\ pc[p] = "ps_eval"
    /\ pc' = [pc EXCEPT ![p] = "ps_create"]
    /\ loc' = [loc EXCEPT ![p].evaluation = evaluateListing(reply),
                          ![p].reply = reply]
    /\ UNCHANGED <<env, dbVars, browserVars, rateLimitStore, emails, scans,
                   sweeps, manuals, userOps, evalVars,
                   requestVars>>

NewRow(l) ==
    [id |-> [scan |-> l.scanNo, i |-> l.i], searchId |-> l.sid,
     externalId |-> l.listings[l.i], dealScore |-> l.evaluation.score,
     isGoodDeal |-> l.evaluation.isGoodDeal, alertSent |-> FALSE,
     condition |-> l.evaluation.condition,
     identifiedProduct |-> l.evaluation.identifiedProduct,
     retailPriceRange |-> l.evaluation.retailPriceRange]

\* variant: every stored listing joins the alert batch
AlertEveryListing(row) == TRUE

\* if (savedListing.isGoodDeal)
AlertWorthy(row) == row.isGoodDeal

\* prisma.listing.create, the counters, the alert batch and the 1.5 s pause
\* (dbOk: the client and the database accepted the statement; this covers a
\* NaN score, which is either rejected or stored as no score)
PsCreate(p, dbOk) ==
    /\ pc[p] = "ps_create"
    /\ LET l == loc[p]
           row == NewRow(l)
       IN IF \/ ~dbOk
             \/ UniqueViolation(l.sid, row.externalId)
             \/ ForeignKeyViolation(l.sid)
          THEN /\ Throws(p, l)
               /\ UNCHANGED dbVars
          ELSE /\ listingTbl' = listingTbl \cup {row}
               /\ UNCHANGED searches
               /\ pc' = [pc EXCEPT ![p] = "ps_loop"]
               /\ loc' = [loc EXCEPT ![p] =
                     [l EXCEPT
                        !.i = @ + 1,
                        !.newListings = @ + 1,
                        !.reply = FailReply("none"),
                        !.created = Append(@, [id |-> row.id,
                                               isGoodDeal |-> row.isGoodDeal]),
                        !.goodDeals = IF AlertWorthy(row) THEN @ + 1 ELSE @,
                        !.dealsToAlert =
                            IF AlertWorthy(row)
                            THEN Append(@, [rowId |-> row.id,
                                            externalId |-> row.externalId,
                                            dealScore |-> row.dealScore])
                            ELSE @]]
    /\ UNCHANGED <<env, browserVars, rateLimitStore, emails, scans, sweeps, manuals,
                   userOps, evalVars,
                   requestVars>>

\* after the loop: prisma.search.update({lastChecked}); without deals return
PsUpdateLastChecked(p) ==
    /\ pc[p] = "ps_loop"
    /\ loc[p].i > Len(loc[p].listings)
    /\ LET l == loc[p] IN
       IF ~searches[l.sid].exists
       THEN /\ Throws(p, l)
            /\ UNCHANGED searches
       ELSE /\ searches' = [searches EXCEPT ![l.sid].lastChecked = l.scanNo]
            /\ IF Len(l.dealsToAlert) > 0
               THEN /\ pc' = [pc EXCEPT ![p] = "ps_email"]
                    /\ UNCHANGED loc
               ELSE Returns(p, l, [newListings |-> l.newListings,
                                   goodDeals |-> l.goodDeals,
                                   alertsSent |-> 0])
    /\ UNCHANGED <<env, listingTbl, browserVars, rateLimitStore,
                   emails, scans, sweeps, manuals, userOps, evalVars,
                   requestVars>>

\* variant: resend.emails.send is awaited outside the try
SendUnguarded(outcome) ==
    IF ~env.RESEND_API_KEY
    THEN [returned |-> TRUE, value |-> FALSE, attempted |-> FALSE]
    ELSE IF outcome = "throws"
    THEN [returned |-> FALSE, value |-> FALSE, attempted |-> TRUE]
    ELSE [returned |-> TRUE, value |-> outcome # "error", attempted |-> TRUE]

\* sendDealAlertEmail for one outcome of resend.emails.send ("accepted",
\* "error": the provider answers {error}, "throws"): whether the call
\* returned (rather than threw), the value returned, whether a send was
\* attempted
sendDealAlertEmail(outcome) ==
    IF ~env.RESEND_API_KEY
    THEN [returned |-> TRUE, value |-> FALSE, attempted |-> FALSE]
    ELSE IF outcome = "throws"
    THEN [returned |-> TRUE, value |-> FALSE, attempted |-> TRUE]
    ELSE [returned |-> TRUE, value |-> outcome # "error", attempted |-> TRUE]

\* sendDealAlertEmail: false without credential, on a provider error and on
\* a send that throws; true when the provider accepted the message
EmailResult(outcome) == sendDealAlertEmail(outcome).value

PsEmail(p, outcome) ==
    /\ pc[p] = "ps_email"
    /\ LET l == loc[p]
           emailSent == EmailResult(outcome)
           call == [deals |-> l.dealsToAlert, ok |-> emailSent]
           l1 == [l EXCEPT !.notified = Append(@, call)]
       IN /\ emails' = IF emailSent
                       THEN emails \cup {[scanNo |-> l.scanNo,
                                          searchId |-> l.sid,
                                          deals |-> l.dealsToAlert]}
                       ELSE emails
          /\ IF emailSent
             THEN /\ pc' = [pc EXCEPT ![p] = "ps_mark"]
                  /\ loc' = [loc EXCEPT ![p] = l1]
             ELSE Returns(p, l1, [newListings |-> l.newListings,
                                  goodDeals |-> l.goodDeals,
                                  alertsSent |-> 0])
    /\ UNCHANGED <<env, dbVars, browserVars, rateLimitStore, scans, sweeps, manuals,
                   userOps, evalVars,
                   requestVars>>

\* variant: the update also clears the deal flag of the rows it marks
AlertedAndCleared(r) == [r EXCEPT !.alertSent = TRUE, !.isGoodDeal = FALSE]

\* data: { alertSent: true }
AlertedRow(r) == [r EXCEPT !.alertSent = TRUE]

\* prisma.listing.updateMany({alertSent: true}); alertsSent = batch length
PsMarkAlerted(p) ==
    /\ pc[p] = "ps_mark"
    /\ LET l == loc[p] IN
       /\ listingTbl' =
              {IF MarkFilter(r, l.sid) THEN AlertedRow(r)
               ELSE r : r \in listingTbl}
       /\ Returns(p, l, [newListings |-> l.newListings,
                         goodDeals |-> l.goodDeals,
                         alertsSent |-> Len(l.dealsToAlert)])
    /\ UNCHANGED <<env, searches, browserVars, rateLimitStore,
                   emails, scans, sweeps, manuals, userOps, evalVars,
                   requestVars>>

----------------------------------------------------------------------------
(* processAllSearches and the handlers around it *)

\* GET/POST /api/cron: 401 unless authorised, else processAllSearches up to
\* the end of findMany
CronRequest(p, authMatches, vercelCronHeader) ==
    /\ pc[p] = "idle"
    /\ sweeps' = sweeps + 1
    /\ IF CronAuthorized(authMatches, vercelCronHeader)
       THEN /\ pc' = [pc EXCEPT ![p] = "pa_loop"]
            /\ loc' = [loc EXCEPT ![p] =
                          [InitLocal EXCEPT !.mode = "batch",
                                            !.activeSearches = ActiveSearches]]
       ELSE UNCHANGED <<pc, loc>>
    /\ UNCHANGED <<env, dbVars, browserVars, rateLimitStore, emails, scans,
                   manuals, userOps, evalVars,
                   requestVars>>

\* the loop calls processSearch for the next search of the snapshot
PaCallNext(p) ==
    /\ pc[p] = "pa_loop"
    /\ loc[p].bi <= Len(loc[p].activeSearches)
    /\ LET s == loc[p].activeSearches[loc[p].bi] IN
       /\ pc' = [pc EXCEPT ![p] = "ps_find"]
       /\ loc' = [loc EXCEPT ![p] =
                     CallProcessSearch(p,
                                       [@ EXCEPT !.attempted = Append(@, s)],
                                       s)]
    /\ scans' = [scans EXCEPT ![p] = @ + 1]
    /\ UNCHANGED <<env, dbVars, browserVars, rateLimitStore, emails, sweeps, manuals,
                   userOps, evalVars,
                   requestVars>>

\* variant: the try/catch is around the loop, a throw ends the sweep
AbortOnThrow(bi, n, threw) == IF threw THEN n + 1 ELSE bi + 1

\* for (const search of activeSearches) with the try/catch inside the loop:
\* the next index after a call that returned or threw, n searches in all
NextIndex(bi, n, threw) == bi + 1

\* variant: processSearch is called without await, the caller goes on at once
ScanCalled(at) == at \in ScanPcs \cup {"ps_ret", "ps_threw"}

\* await processSearch(...): the caller resumes once the scan has returned
\* or thrown
ScanSettled(at) == at \in {"ps_ret", "ps_threw"}

\* the caller of processSearch resumes: the manual handler answers, the
\* sweep adds the counts (or logs the error) and pauses 3 s
PsResume(p) ==
    /\ ScanSettled(pc[p])
    /\ IF loc[p].mode = "manual"
       THEN /\ pc' = [pc EXCEPT ![p] = "idle"]
            /\ loc' = [loc EXCEPT ![p] = InitLocal]
       ELSE /\ pc' = [pc EXCEPT ![p] = "pa_loop"]
            /\ loc' = [loc EXCEPT ![p] =
                  [InitLocal EXCEPT
                     !.mode = "batch",
                     !.activeSearches = loc[p].activeSearches,
                     !.attempted = loc[p].attempted,
                     !.bi = NextIndex(loc[p].bi,
                                      Len(loc[p].activeSearches),
                                      pc[p] = "ps_threw"),
                     !.totals = IF pc[p] = "ps_ret"
                                THEN AddCounts(loc[p].totals, loc[p].result)
                                ELSE loc[p].totals,
                     !.outcomes =
                         Append(loc[p].outcomes,
                                [threw |-> pc[p] = "ps_threw",
                                 result |-> loc[p].result])]]
    /\ UNCHANGED <<env, dbVars, browserVars, rateLimitStore, emails, scans,
                   sweeps, manuals, userOps, evalVars,
                   requestVars>>

\* variant: close() is called without testing the singleton
AssumeSession(b) == TRUE

\* closeBrowser: if (browserInstance)
HasSession(b) == b # NULL

\* finally: closeBrowser() up to its await (or through, without a session);
\* close() on null would be a TypeError that processAllSearches rethrows
PaCloseBrowser(p) ==
    /\ pc[p] = "pa_loop"
    /\ loc[p].bi > Len(loc[p].activeSearches)
    /\ loc' = [loc EXCEPT ![p].closeCalls = @ + 1]
    /\ IF HasSession(browserInstance)
       THEN /\ openBrowsers' = openBrowsers \ {browserInstance}
            /\ pc' = [pc EXCEPT ![p] = IF browserInstance = NULL
                                       THEN "pa_threw" ELSE "pa_closing"]
       ELSE /\ UNCHANGED openBrowsers
            /\ pc' = [pc EXCEPT ![p] = "pa_ret"]
    /\ UNCHANGED <<env, dbVars, browserInstance, rateLimitStore,
                   emails, scans, sweeps, manuals, userOps, evalVars,
                   requestVars>>

\* variant: the singleton is not reset after close()
KeepInstance(b) == b

\* browserInstance = null, for the instance b held so far
ReleasedInstance(b) == NULL

\* browserInstance.close() resolved: browserInstance = null
PaBrowserClosed(p) ==
    /\ pc[p] = "pa_closing"
    /\ browserInstance' = ReleasedInstance(browserInstance)
    /\ pc' = [pc EXCEPT ![p] = "pa_ret"]
    /\ UNCHANGED <<env, dbVars, openBrowsers, rateLimitStore,
                   emails, loc, scans, sweeps, manuals, userOps, evalVars,
                   requestVars>>

\* processAllSearches has returned its totals (or thrown); the handler
\* answers
PaResume(p) ==
    /\ pc[p] \in {"pa_ret", "pa_threw"}
    /\ pc' = [pc EXCEPT ![p] = "idle"]
    /\ loc' = [loc EXCEPT ![p] = InitLocal]
    /\ UNCHANGED <<env, dbVars, browserVars, rateLimitStore, emails, scans,
                   sweeps, manuals, userOps, evalVars,
                   requestVars>>

\* PATCH /api/searches/[id] {isActive}
PatchSearch(id, isActive) ==
    /\ userOps' = userOps + 1
    /\ searches[id].exists
    /\ searches' = [searches EXCEPT ![id].isActive = isActive]
    /\ UNCHANGED <<env, listingTbl, browserVars, rateLimitStore,
                   emails, pc, loc, scans, sweeps, manuals, evalVars,
                   requestVars>>

\* DELETE /api/searches/[id]: the row and, by ON DELETE CASCADE, its listings
DeleteSearch(id) ==
    /\ userOps' = userOps + 1
    /\ searches[id].exists
    /\ searches' = [searches EXCEPT ![id].exists = FALSE]
    /\ listingTbl' = CascadeDelete(id)
    /\ UNCHANGED <<env, browserVars, rateLimitStore, emails, pc,
                   loc, scans, sweeps, manuals, evalVars,
                   requestVars>>

EmailOutcomes == {"accepted", "error", "throws"}

\* the steps of processSearch
ScanStep(lists) ==
    \/ \E p \in Proc : PsLoad(p)
    \/ \E p \in Proc : PsLaunched(p)
    \/ \E p \in Proc : PsNewContext(p)
    \/ \E p \in Proc, reached \in BOOLEAN, found \in lists :
           PsScrape(p, reached, found)
    \/ \E p \in Proc : PsFindExisting(p)
    \/ \E p \in Proc, reply \in ScanReplies : PsEvaluated(p, reply)
    \/ \E p \in Proc, dbOk \in BOOLEAN : PsCreate(p, dbOk)
    \/ \E p \in Proc : PsUpdateLastChecked(p)
    \/ \E p \in Proc, outcome \in EmailOutcomes : PsEmail(p, outcome)
    \/ \E p \in Proc : PsMarkAlerted(p)
    \/ \E p \in Proc : PsResume(p)

\* the steps of processAllSearches
SweepStep ==
    \/ \E p \in Proc : PaCallNext(p)
    \/ \E p \in Proc : PaCloseBrowser(p)
    \/ \E p \in Proc : PaBrowserClosed(p)
    \/ \E p \in Proc : PaResume(p)

\* (a PATCH that leaves the flag as it is changes nothing and is left out)
UserStep ==
    \/ \E id \in SearchIds, isActive \in BOOLEAN :
           /\ userOps < MaxUserOps
           /\ searches[id].isActive # isActive
           /\ PatchSearch(id, isActive)
    \/ \E id \in SearchIds : userOps < MaxUserOps /\ DeleteSearch(id)

\* Requests arrive at any time: a cron sweep and a manual scan may overlap.
Next ==
    \/ \E p \in ManualTasks, id \in ManualTargets :
           manuals < MaxManualScans /\ ManualScanRequest(p, id)
    \/ \E p \in CronTasks, a \in BOOLEAN, v \in BOOLEAN :
           sweeps < MaxSweeps /\ CronRequest(p, a, v)
    \/ ScanStep(CandidateLists)
    \/ SweepStep
    \/ UserStep

Spec == Init /\ [][Next]_vars

----------------------------------------------------------------------------
(* The evaluator on its own: one reply, one call of evaluateListing *)

InitEval ==
    /\ env = [GEMINI_API_KEY |-> TRUE, RESEND_API_KEY |-> TRUE,
              CRON_SECRET |-> TRUE, production |-> TRUE]
    /\ searches = [s \in SearchIds |->
                      [exists |-> TRUE, isActive |-> TRUE, lastChecked |-> NULL]]
    /\ listingTbl = {}
    /\ browserInstance = NULL
    /\ openBrowsers = {}
    /\ rateLimitStore = [k \in ScanIdentifiers |-> 0]
    /\ emails = {}
    /\ pc = [p \in Proc |-> "idle"]
    /\ loc = [p \in Proc |-> InitLocal]
    /\ scans = [p \in Proc |-> 0]
    /\ sweeps = 0
    /\ manuals = 0
    /\ userOps = 0
    /\ evalIn \in RawOutputs
    /\ evalOut = <<>>
    /\ callIn = NoCall
    /\ callOut = <<>>
    /\ NoRequests

Evaluate ==
    /\ evalOut = <<>>
    /\ evalOut' = <<evaluateListing(evalIn)>>
    /\ UNCHANGED <<env, dbVars, browserVars, rateLimitStore, emails, pc, loc,
                   scans, sweeps, manuals, userOps, evalIn, callIn, callOut,
                   requestVars>>

NextEval == Evaluate

SpecEval == InitEval /\ [][NextEval]_vars

----------------------------------------------------------------------------
(* Manual scans of one search served in turn, as the design assumes: a     *)
(* request is admitted only when no task is running.  Acquisition results  *)
(* are longer here.                                                        *)

AllIdle == \A q \in Proc : pc[q] = "idle"

NextSerial ==
    \/ \E p \in ManualTasks, id \in ManualTargets :
           AllIdle /\ manuals < MaxSerialScans /\ ManualScanRequest(p, id)
    \/ ScanStep(SerialCandidateLists)
    \/ UserStep

SpecSerial == Init /\ [][NextSerial]_vars

----------------------------------------------------------------------------
(* Authorised cron sweeps one after another, the user switching searches   *)
(* on and off in between: teardown after teardown, then a new acquisition. *)

NextTeardown ==
    \/ \E p \in CronTasks :
           AllIdle /\ sweeps < MaxTeardownSweeps /\ CronRequest(p, TRUE, TRUE)
    \/ ScanStep(CandidateLists)
    \/ SweepStep
    \/ \E id \in SearchIds, isActive \in BOOLEAN :
           /\ AllIdle
           /\ userOps < MaxTeardownUserOps
           /\ searches[id].isActive # isActive
           /\ PatchSearch(id, isActive)

SpecTeardown == Init /\ [][NextTeardown]_vars

----------------------------------------------------------------------------
(* The acquisition adapter on its own: one search page, one call of        *)
(* fetchCraigslistListings, then the loop of processSearch over what it    *)
(* returned.                                                               *)

SCAN_LIMIT == 15      \* limit: 15 in processSearch
DEFAULT_LIMIT == 20   \* options?.limit || 20
DETAIL_LIMIT == 10    \* Math.min(10, basicListings.length)

\* program state after construction, nothing running
IdleProgram ==
    /\ searches = [s \in SearchIds |->
                      [exists |-> TRUE, isActive |-> TRUE, lastChecked |-> NULL]]
    /\ listingTbl = {}
    /\ browserInstance = NULL
    /\ openBrowsers = {}
    /\ rateLimitStore = [k \in ScanIdentifiers |-> 0]
    /\ emails = {}
    /\ pc = [p \in Proc |-> "idle"]
    /\ loc = [p \in Proc |-> InitLocal]
    /\ scans = [p \in Proc |-> 0]
    /\ sweeps = 0
    /\ manuals = 0
    /\ userOps = 0
    /\ evalIn = FailReply("throws")
    /\ evalOut = <<>>
    /\ NoRequests

\* Array.prototype.slice(0, n)
Slice(s, n) == SubSeq(s, 1, IF n < Len(s) THEN n ELSE Len(s))

\* x || null for a string x
OrNull(x) == IF x = "" THEN "null" ELSE x

\* options?.limit || 20; 0 stands for a limit that was not given
LimitOf(limit) == IF limit = 0 THEN DEFAULT_LIMIT ELSE limit

\* a row of the search page: its posting id, whether a link and a title were
\* found in it, and what opening its detail page does: "ok", "fail" (the
\* navigation fails, the page stays usable) or "gone" (page, context or
\* browser were closed: every later call on the page throws)
GoodRow(k) == [id |-> k, url |-> TRUE, title |-> TRUE, detail |-> "ok"]

RowMarks == {"nourl", "notitle", "fail", "gone"}

MarkedRow(k, mark) ==
    CASE mark = "nourl" -> [GoodRow(k) EXCEPT !.url = FALSE]
      [] mark = "notitle" -> [GoodRow(k) EXCEPT !.title = FALSE]
      [] OTHER -> [GoodRow(k) EXCEPT !.detail = mark]

\* the search pages: n good rows; n good rows but one; n rows whose detail
\* pages all fail
SearchPages ==
    {[k \in 1 .. n |-> GoodRow(k)] : n \in 0 .. MaxPageRows}
      \cup {[k \in 1 .. n |-> IF k = at THEN MarkedRow(k, mark) ELSE GoodRow(k)] :
               <<n, at, mark>> \in {x \in (1 .. MaxPageRows) \X (1 .. MaxPageRows)
                                           \X RowMarks : x[2] <= x[1]}}
      \cup {[k \in 1 .. n |-> MarkedRow(k, "fail")] : n \in 2 .. MaxPageRows}

\* fetchListingDetails: the details of the page, or empty details from its
\* catch
fetchListingDetails(outcome) ==
    IF outcome = "ok"
    THEN [description |-> "text", imageUrls |-> <<"img">>]
    ELSE [description |-> "", imageUrls |-> <<>>]

\* the object pushed for a row
Candidate(basic, details) ==
    [externalId |-> basic.id,
     description |-> OrNull(details.description),
     imageUrls |-> details.imageUrls]

\* variant: fetchListingDetails lets the navigation error through
DetailUncaught(outcome) == outcome \in {"fail", "gone"}

\* the iteration leaves the loop for the outer catch: on a page that is
\* gone, page.waitForTimeout(500) throws
DetailAborts(outcome) == outcome = "gone"

\* variant: every row taken from the page is visited
NoDetailSlice(rows) == rows

\* basicListings.slice(0, Math.min(10, basicListings.length))
DetailSlice(rows) == Slice(rows, DETAIL_LIMIT)

\* the for loop over the sliced rows: the candidates pushed, the detail
\* pages visited, whether the loop threw
RECURSIVE DetailLoop(_, _, _)
DetailLoop(rows, k, acc) ==
    IF k > Len(rows) THEN acc
    ELSE LET basic == rows[k] IN
         IF ~basic.url \/ ~basic.title
         THEN DetailLoop(rows, k + 1, acc)
         ELSE LET visited == [acc EXCEPT !.visits = @ + 1] IN
              IF DetailAborts(basic.detail)
              THEN [visited EXCEPT !.threw = TRUE]
              ELSE DetailLoop(rows, k + 1,
                       [visited EXCEPT !.listings =
                           Append(@, Candidate(basic,
                                      fetchListingDetails(basic.detail)))])

fetchCraigslistListings(reached, page, limit) ==
    LET basicListings == Slice(page, LimitOf(limit))
        run == DetailLoop(DetailSlice(basicListings), 1,
                          [listings |-> <<>>, visits |-> 0, threw |-> FALSE])
    IN  IF ~reached THEN [listings |-> <<>>, visits |-> 0]
        ELSE [listings |-> Fetched(~run.threw, run.listings),
              visits |-> run.visits]

FetchCalls ==
    {[fn |-> "fetch", reached |-> TRUE, page |-> page, limit |-> limit] :
        page \in SearchPages, limit \in {0, SCAN_LIMIT}}
      \cup {[fn |-> "fetch", reached |-> FALSE,
             page |-> [k \in 1 .. 3 |-> GoodRow(k)], limit |-> SCAN_LIMIT]}

InitFetch ==
    /\ env = [GEMINI_API_KEY |-> TRUE, RESEND_API_KEY |-> TRUE,
              CRON_SECRET |-> TRUE, production |-> TRUE]
    /\ IdleProgram
    /\ callIn \in FetchCalls
    /\ callOut = <<>>

CallVarsOnly ==
    UNCHANGED <<env, dbVars, browserVars, rateLimitStore, emails, pc, loc,
                scans, sweeps, manuals, userOps, evalIn, evalOut, callIn,
                requestVars>>

\* const listings = await fetchCraigslistListings(...)
Acquire ==
    /\ callOut = <<>>
    /\ LET got == fetchCraigslistListings(callIn.reached, callIn.page,
                                          callIn.limit)
       IN  callOut' = <<[listings |-> got.listings, visits |-> got.visits,
                         i |-> 1, evaluated |-> 0, inserted |-> 0,
                         threw |-> FALSE]>>
    /\ CallVarsOnly

\* one iteration of for (const listing of listings): a stored listing is
\* skipped, a new one is evaluated and inserted; a failing insert ends the
\* scan
HandleCandidate(stored, dbOk) ==
    /\ callOut # <<>>
    /\ ~callOut[1].threw
    /\ callOut[1].i <= Len(callOut[1].listings)
    /\ callOut' =
         <<IF stored
           THEN [callOut[1] EXCEPT !.i = @ + 1]
           ELSE IF dbOk
           THEN [callOut[1] EXCEPT !.i = @ + 1, !.evaluated = @ + 1,
                                   !.inserted = @ + 1]
           ELSE [callOut[1] EXCEPT !.evaluated = @ + 1, !.threw = TRUE]>>
    /\ CallVarsOnly

NextFetch ==
    \/ Acquire
    \/ \E stored \in BOOLEAN, dbOk \in BOOLEAN : HandleCandidate(stored, dbOk)

SpecFetch == InitFetch /\ [][NextFetch]_vars

----------------------------------------------------------------------------
(* The helpers on their own: one call of getCategoryFromQuery, of          *)
(* getRegionFromZipcode or of sendDealAlertEmail.  A string of the program *)
(* is a string here; Len, SubSeq and \o work on its characters.            *)

ZIP_TO_REGION ==
    ("940" :> "sfbay") @@ ("941" :> "sfbay") @@ ("942" :> "sfbay")
      @@ ("943" :> "sfbay") @@ ("944" :> "sfbay") @@ ("945" :> "sfbay")
      @@ ("946" :> "sfbay") @@ ("947" :> "sfbay") @@ ("948" :> "sfbay")
      @@ ("949" :> "sfbay") @@ ("950" :> "sfbay") @@ ("951" :> "inlandempire")
      @@ ("952" :> "inlandempire") @@ ("900" :> "losangeles") @@ ("901" :> "losangeles")
      @@ ("902" :> "losangeles") @@ ("903" :> "losangeles") @@ ("904" :> "losangeles")
      @@ ("905" :> "losangeles") @@ ("906" :> "losangeles") @@ ("907" :> "losangeles")
      @@ ("908" :> "losangeles") @@ ("910" :> "losangeles") @@ ("911" :> "losangeles")
      @@ ("912" :> "losangeles") @@ ("913" :> "losangeles") @@ ("914" :> "losangeles")
      @@ ("915" :> "losangeles") @@ ("916" :> "losangeles") @@ ("917" :> "losangeles")
      @@ ("918" :> "losangeles") @@ ("920" :> "sandiego") @@ ("921" :> "sandiego")
      @@ ("922" :> "sandiego") @@ ("958" :> "sacramento") @@ ("959" :> "sacramento")
      @@ ("956" :> "sacramento") @@ ("100" :> "newyork") @@ ("101" :> "newyork")
      @@ ("102" :> "newyork") @@ ("103" :> "newyork") @@ ("104" :> "newyork")
      @@ ("110" :> "newyork") @@ ("111" :> "newyork") @@ ("112" :> "newyork")
      @@ ("113" :> "newyork") @@ ("114" :> "newyork") @@ ("750" :> "dallas")
      @@ ("751" :> "dallas") @@ ("752" :> "dallas") @@ ("753" :> "dallas")
      @@ ("770" :> "houston") @@ ("771" :> "houston") @@ ("772" :> "houston")
      @@ ("773" :> "houston") @@ ("774" :> "houston") @@ ("775" :> "houston")
      @@ ("787" :> "austin") @@ ("786" :> "austin") @@ ("606" :> "chicago")
      @@ ("607" :> "chicago") @@ ("608" :> "chicago") @@ ("600" :> "chicago")
      @@ ("980" :> "seattle") @@ ("981" :> "seattle") @@ ("982" :> "seattle")
      @@ ("983" :> "seattle") @@ ("984" :> "seattle") @@ ("802" :> "denver")
      @@ ("803" :> "denver") @@ ("804" :> "denver") @@ ("800" :> "denver")
      @@ ("801" :> "denver") @@ ("021" :> "boston") @@ ("022" :> "boston")
      @@ ("020" :> "boston") @@ ("024" :> "boston") @@ ("303" :> "atlanta")
      @@ ("300" :> "atlanta") @@ ("301" :> "atlanta") @@ ("302" :> "atlanta")
      @@ ("331" :> "miami") @@ ("330" :> "miami") @@ ("332" :> "miami")
      @@ ("333" :> "miami") @@ ("850" :> "phoenix") @@ ("851" :> "phoenix")
      @@ ("852" :> "phoenix") @@ ("853" :> "phoenix") @@ ("481" :> "detroit")
      @@ ("482" :> "detroit") @@ ("480" :> "detroit") @@ ("483" :> "detroit")
      @@ ("191" :> "philadelphia") @@ ("190" :> "philadelphia") @@ ("192" :> "philadelphia")
      @@ ("972" :> "portland") @@ ("970" :> "portland") @@ ("971" :> "portland")
      @@ ("973" :> "portland") @@ ("554" :> "minneapolis") @@ ("553" :> "minneapolis")
      @@ ("550" :> "minneapolis") @@ ("551" :> "minneapolis")

\* Object.entries(CATEGORY_MAP), in insertion order
CATEGORY_MAP ==
    <<<<"bicycle", "bia">>,
      <<"bike", "bia">>,
      <<"car", "cta">>,
      <<"auto", "cta">>,
      <<"furniture", "fua">>,
      <<"electronics", "ela">>,
      <<"computer", "sya">>,
      <<"laptop", "sya">>,
      <<"phone", "moa">>,
      <<"motorcycle", "mca">>,
      <<"default", "sss">>>>

LowerCase ==
    ("A" :> "a") @@ ("B" :> "b") @@ ("C" :> "c") @@ ("D" :> "d")
      @@ ("E" :> "e") @@ ("F" :> "f") @@ ("G" :> "g") @@ ("H" :> "h")
      @@ ("I" :> "i") @@ ("J" :> "j") @@ ("K" :> "k") @@ ("L" :> "l")
      @@ ("M" :> "m") @@ ("N" :> "n") @@ ("O" :> "o") @@ ("P" :> "p")
      @@ ("Q" :> "q") @@ ("R" :> "r") @@ ("S" :> "s") @@ ("T" :> "t")
      @@ ("U" :> "u") @@ ("V" :> "v") @@ ("W" :> "w") @@ ("X" :> "x")
      @@ ("Y" :> "y") @@ ("Z" :> "z")

\* String.prototype.toLowerCase
RECURSIVE ToLowerCase(_)
ToLowerCase(s) ==
    IF Len(s) = 0 THEN ""
    ELSE LET c == SubSeq(s, 1, 1) IN
         (IF c \in DOMAIN LowerCase THEN LowerCase[c] ELSE c)
            \o ToLowerCase(SubSeq(s, 2, Len(s)))

\* String.prototype.includes
Includes(s, word) ==
    \E at \in 1 .. Len(s) - Len(word) + 1 :
        SubSeq(s, at, at + Len(word) - 1) = word

\* CATEGORY_MAP[key]
CategoryOf(key) ==
    LET k == CHOOSE k \in 1 .. Len(CATEGORY_MAP) : CATEGORY_MAP[k][1] = key
    IN  CATEGORY_MAP[k][2]

\* variant: the loop does not return at the first match
RECURSIVE LastMatch(_, _)
LastMatch(lowerQuery, k) ==
    IF k > Len(CATEGORY_MAP) THEN CategoryOf("default")
    ELSE LET later == LastMatch(lowerQuery, k + 1) IN
         IF Includes(lowerQuery, CATEGORY_MAP[k][1])
               /\ \A h \in k + 1 .. Len(CATEGORY_MAP) :
                     ~Includes(lowerQuery, CATEGORY_MAP[h][1])
         THEN CATEGORY_MAP[k][2]
         ELSE later

\* the for loop of getCategoryFromQuery from entry k on, and the return
\* after it
RECURSIVE FirstMatch(_, _)
FirstMatch(lowerQuery, k) ==
    IF k > Len(CATEGORY_MAP) THEN CategoryOf("default")
    ELSE IF Includes(lowerQuery, CATEGORY_MAP[k][1])
    THEN CATEGORY_MAP[k][2]
    ELSE FirstMatch(lowerQuery, k + 1)

getCategoryFromQuery(query) == FirstMatch(ToLowerCase(query), 1)

\* variant: the table is indexed with the whole postal code
WholeCode(zipcode) == zipcode

\* zipcode.substring(0, 3)
Prefix3(zipcode) == SubSeq(zipcode, 1, IF Len(zipcode) < 3 THEN Len(zipcode) ELSE 3)

\* ZIP_TO_REGION[prefix3] || 'sfbay'
getRegionFromZipcode(zipcode) ==
    LET prefix3 == Prefix3(zipcode)
        found == IF prefix3 \in DOMAIN ZIP_TO_REGION
                 THEN ZIP_TO_REGION[prefix3] ELSE ""
    IN  IF found = "" THEN "sfbay" ELSE found

\* the words the queries of the model are made of
QueryWords ==
    {"mountain", "bike", "rental", "antique", "lamp", "Bicycle", "CAR",
     "carpet", "auto", "motorcycle", "Laptop", "iPhone", "default"}

Queries ==
    QueryWords
      \cup {a \o " " \o b : a \in QueryWords, b \in QueryWords}
      \cup {a \o " " \o b \o " " \o c :
               <<a, b, c>> \in {"mountain", "antique", "used"}
                                 \X QueryWords \X {"rental", "lamp", "car"}}

\* postal codes: a prefix of the table or outside it, then nothing, two
\* digits or the rest of a ZIP+4; and codes shorter than three characters
ZipPrefixes == DOMAIN ZIP_TO_REGION \cup {"999", "000", "953", "94x"}

ZipCodes ==
    {prefix \o rest : prefix \in ZipPrefixes, rest \in {"", "02", "10-1234"}}
      \cup {"", "9", "94"}

HelperCalls ==
    {[fn |-> "category", query |-> q] : q \in Queries}
      \cup {[fn |-> "region", zipcode |-> z] : z \in ZipCodes}
      \cup {[fn |-> "email", outcome |-> o] : o \in {"accepted", "error", "throws"}}

InitHelpers ==
    /\ env \in EnvConfigs
    /\ IdleProgram
    /\ callIn \in HelperCalls
    /\ callOut = <<>>

CallCategory ==
    /\ callIn.fn = "category"
    /\ callOut = <<>>
    /\ callOut' = <<getCategoryFromQuery(callIn.query)>>
    /\ CallVarsOnly

CallRegion ==
    /\ callIn.fn = "region"
    /\ callOut = <<>>
    /\ callOut' = <<getRegionFromZipcode(callIn.zipcode)>>
    /\ CallVarsOnly

CallEmail ==
    /\ callIn.fn = "email"
    /\ callOut = <<>>
    /\ callOut' = <<sendDealAlertEmail(callIn.outcome)>>
    /\ CallVarsOnly

NextHelpers == CallCategory \/ CallRegion \/ CallEmail

SpecHelpers == InitHelpers /\ [][NextHelpers]_vars

----------------------------------------------------------------------------
(* One kind of request to /api/cron, given by its headers: whether        *)
(* Authorization is 'Bearer <CRON_SECRET>' and whether x-vercel-cron is    *)
(* there; whatever sweep it starts runs to its end.                        *)

CronCalls ==
    {[fn |-> "cron", authMatches |-> a, vercelCronHeader |-> v] :
        a \in BOOLEAN, v \in BOOLEAN}

InitCron ==
    /\ env \in EnvConfigs
    /\ IdleProgram
    /\ callIn \in CronCalls
    /\ callOut = <<>>

NextCron ==
    \/ \E p \in CronTasks :
           /\ sweeps < MaxSweeps
           /\ CronRequest(p, callIn.authMatches, callIn.vercelCronHeader)
    \/ ScanStep(CandidateLists)
    \/ SweepStep

SpecCron == InitCron /\ [][NextCron]_vars

----------------------------------------------------------------------------
(* The adapter's conversions on their own: the price of one result row,    *)
(* from the text of the page to the candidate, and the search URL of one   *)
(* Search.                                                                 *)

\* JavaScript values of the conversions: undefined, null, NaN or a number
\* with its hundredths
Undefined == [t |-> "undefined", v |-> 0, frac |-> 0]
JsNull == [t |-> "null", v |-> 0, frac |-> 0]
NotANumber == [t |-> "nan", v |-> 0, frac |-> 0]
Number(n) == [t |-> "num", v |-> n, frac |-> 0]

\* if (x), x ? a : b, x || b for such a value
Truthy(x) == x.t = "num" /\ (x.v # 0 \/ x.frac # 0)

Digits == <<"0", "1", "2", "3", "4", "5", "6", "7", "8", "9">>

DigitValue(c) == (CHOOSE k \in 1 .. 10 : Digits[k] = c) - 1

IsDigit(c) == \E k \in 1 .. 10 : Digits[k] = c

\* Number.prototype.toString of a non-negative integer
RECURSIVE NumberToString(_)
NumberToString(n) ==
    IF n < 10 THEN Digits[n + 1]
    ELSE NumberToString(n \div 10) \o Digits[(n % 10) + 1]

\* the three digits of a group of thousands
Group3(n) == Digits[(n \div 100) + 1] \o Digits[((n \div 10) % 10) + 1]
                \o Digits[(n % 10) + 1]

\* a number of dollars as the page shows it: 1,250
RECURSIVE WithCommas(_)
WithCommas(n) ==
    IF n < 1000 THEN NumberToString(n)
    ELSE WithCommas(n \div 1000) \o "," \o Group3(n % 1000)

\* the first run of digits and commas of the text, "" when there is none:
\* priceText.match(/\$?([\d,]+)/), group 1
RECURSIVE RunFrom(_, _)
RunFrom(text, at) ==
    IF at > Len(text) THEN ""
    ELSE LET c == SubSeq(text, at, at) IN
         IF IsDigit(c) \/ c = "," THEN c \o RunFrom(text, at + 1) ELSE ""

PriceMatch(text) ==
    LET starts == {at \in 1 .. Len(text) :
                      IsDigit(SubSeq(text, at, at)) \/ SubSeq(text, at, at) = ","}
    IN  IF starts = {} THEN ""
        ELSE RunFrom(text, CHOOSE at \in starts : \A o \in starts : at <= o)

\* .replace(/,/g, '')
RECURSIVE StripCommas(_)
StripCommas(s) ==
    IF Len(s) = 0 THEN ""
    ELSE (IF SubSeq(s, 1, 1) = "," THEN "" ELSE SubSeq(s, 1, 1))
            \o StripCommas(SubSeq(s, 2, Len(s)))

\* parseInt(s, 10) of a string of digits
RECURSIVE DigitsValue(_)
DigitsValue(s) ==
    IF Len(s) = 0 THEN 0
    ELSE 10 * DigitsValue(SubSeq(s, 1, Len(s) - 1))
            + DigitValue(SubSeq(s, Len(s), Len(s)))

ParseInt(s) == IF Len(s) = 0 THEN NotANumber ELSE Number(DigitsValue(s))

\* the price of a row in the page: priceMatch ? parseInt(...) : null
BasicPrice(priceText) ==
    LET group == PriceMatch(priceText) IN
    IF group = "" THEN JsNull ELSE ParseInt(StripCommas(group))

\* the price of the candidate: basic.price ? basic.price * 100 : null
CandidatePrice(price) == IF Truthy(price) THEN Number(price.v * 100) ELSE JsNull

\* a row showing d dollars, in the three ways a price is written, and rows
\* showing no price
PriceCalls ==
    {[fn |-> "price", listed |-> TRUE, dollars |-> d, text |-> text] :
        <<d, text>> \in UNION {{<<d, "$" \o WithCommas(d)>>,
                                <<d, "$" \o NumberToString(d)>>,
                                <<d, NumberToString(d)>>} : d \in 0 .. MaxDollars}}
      \cup {[fn |-> "price", listed |-> FALSE, dollars |-> 0, text |-> text] :
               text \in {"", "free", "$", "call"}}

\* x / 100
Div100(x) == [t |-> "num", v |-> x.v \div 100, frac |-> x.v % 100]

\* the options processSearch passes: minPrice and maxPrice in whole units
\* when the Search has them, limit: 15, and no radius
ScanOptions(search) ==
    [minPrice |-> IF Truthy(search.minPrice)
                  THEN Div100(search.minPrice) ELSE Undefined,
     maxPrice |-> IF Truthy(search.maxPrice)
                  THEN Div100(search.maxPrice) ELSE Undefined,
     limit |-> SCAN_LIMIT,
     radius |-> Undefined]

DEFAULT_RADIUS == 25  \* options?.radius || 25

\* buildSearchUrl: host, path and query parameters of the URL
buildSearchUrl(query, zipcode, options) ==
    [region |-> getRegionFromZipcode(zipcode),
     category |-> getCategoryFromQuery(query),
     query |-> query,
     postal |-> zipcode,
     search_distance |-> IF Truthy(options.radius)
                         THEN options.radius ELSE Number(DEFAULT_RADIUS),
     sort |-> "date",
     postedToday |-> "1",
     min_price |-> IF Truthy(options.minPrice)
                   THEN options.minPrice ELSE Undefined,
     max_price |-> IF Truthy(options.maxPrice)
                   THEN options.maxPrice ELSE Undefined]

\* the URL fetchCraigslistListings builds for the scan of a Search
ScanUrl(search) ==
    buildSearchUrl(search.query, search.zipcode, ScanOptions(search))

\* Search rows: saved radius (or none), price bounds in subunits (or none)
UrlCalls ==
    {[fn |-> "url",
      search |-> [query |-> q, zipcode |-> z, radius |-> r,
                  minPrice |-> lo, maxPrice |-> hi]] :
        q \in {"road bike", "Laptop"},
        z \in {"94110", "90002"},
        r \in {JsNull, Number(5), Number(25), Number(50)},
        lo \in {JsNull, Number(0), Number(5000), Number(12550)},
        hi \in {JsNull, Number(20000)}}

InitAdapter ==
    /\ env = [GEMINI_API_KEY |-> TRUE, RESEND_API_KEY |-> TRUE,
              CRON_SECRET |-> TRUE, production |-> TRUE]
    /\ IdleProgram
    /\ callIn \in PriceCalls \cup UrlCalls
    /\ callOut = <<>>

\* the row is read from the page and becomes a candidate
CallPrice ==
    /\ callIn.fn = "price"
    /\ callOut = <<>>
    /\ callOut' = <<CandidatePrice(BasicPrice(callIn.text))>>
    /\ CallVarsOnly

CallUrl ==
    /\ callIn.fn = "url"
    /\ callOut = <<>>
    /\ callOut' = <<ScanUrl(callIn.search)>>
    /\ CallVarsOnly

NextAdapter == CallPrice \/ CallUrl

SpecAdapter == InitAdapter /\ [][NextAdapter]_vars

(* A cron sweep and a manual scan of the same search at the same time,     *)
(* with longer acquisition results: the acquisition succeeds, the model    *)
(* rates every candidate 69.5 and the notifier accepts every message.      *)

NextOverlap ==
    \/ \E p \in ManualTasks, id \in ManualTargets :
           manuals < MaxManualScans /\ ManualScanRequest(p, id)
    \/ \E p \in CronTasks :
           sweeps < MaxSweeps /\ CronRequest(p, TRUE, TRUE)
    \/ \E p \in Proc : PsLoad(p)
    \/ \E p \in Proc : PsLaunched(p)
    \/ \E p \in Proc : PsNewContext(p)
    \/ \E p \in Proc, found \in SerialCandidateLists :
           PsScrape(p, TRUE, found)
    \/ \E p \in Proc : PsFindExisting(p)
    \/ \E p \in Proc :
           PsEvaluated(p, JsonReply([t |-> "num", h |-> 139], FALSE))
    \/ \E p \in Proc, dbOk \in BOOLEAN : PsCreate(p, dbOk)
    \/ \E p \in Proc : PsUpdateLastChecked(p)
    \/ \E p \in Proc : PsEmail(p, "accepted")
    \/ \E p \in Proc : PsMarkAlerted(p)
    \/ \E p \in Proc : PsResume(p)
    \/ SweepStep

SpecOverlap == Init /\ [][NextOverlap]_vars

----------------------------------------------------------------------------

(* The rate limiter on its own: calls of checkRateLimit for a few           *)
(* identifiers under one configuration, the clock advancing a second at a  *)
(* time, the cleanup timer firing in between.                              *)

MaxLimiterCalls == 5
MaxLimiterNow == 6000

SECOND == 1000

\* configurations of the shape of RATE_LIMITS, scaled down
LimiterConfigs ==
    {[maxRequests |-> 1, windowMs |-> 1 * SECOND],
     [maxRequests |-> 2, windowMs |-> 2 * SECOND],
     [maxRequests |-> 3, windowMs |-> 2 * SECOND]}

LimiterIdentifiers == {"chat:ip1", "chat:ip2"}

\* new Map()
EmptyMap == [k \in {} |-> NULL]

\* Map.prototype.set
MapSet(m, k, v) == [x \in (DOMAIN m) \cup {k} |-> IF x = k THEN v ELSE m[x]]

\* Map.prototype.delete for every key of a set
MapDeleteAll(m, ks) == [x \in (DOMAIN m) \ ks |-> m[x]]

\* Math.ceil(ms / 1000)
CeilSeconds(ms) == (ms + SECOND - 1) \div SECOND

\* variant: a window is over as soon as the clock reaches its resetTime
ExpiredAtReset(entry, t) == entry.resetTime <= t

\* entry.resetTime < now
Expired(entry, t) == entry.resetTime < t

\* entry.count >= config.maxRequests
Exhausted(entry, config) == entry.count >= config.maxRequests

\* checkRateLimit at time t: the store it leaves and the result it returns
checkRateLimit(store, identifier, config, t) ==
    IF identifier \notin DOMAIN store \/ Expired(store[identifier], t)
    THEN [store |-> MapSet(store, identifier,
                           [count |-> 1, resetTime |-> t + config.windowMs]),
          allowed |-> TRUE,
          remaining |-> config.maxRequests - 1,
          resetIn |-> CeilSeconds(config.windowMs)]
    ELSE LET entry == store[identifier] IN
         IF Exhausted(entry, config)
         THEN [store |-> store,
               allowed |-> FALSE,
               remaining |-> 0,
               resetIn |-> CeilSeconds(entry.resetTime - t)]
         ELSE [store |-> MapSet(store, identifier,
                                [entry EXCEPT !.count = @ + 1]),
               allowed |-> TRUE,
               remaining |-> config.maxRequests - (entry.count + 1),
               resetIn |-> CeilSeconds(entry.resetTime - t)]

\* the setInterval callback: entries whose window is over are dropped
CleanedUp(store, t) ==
    MapDeleteAll(store, {k \in DOMAIN store : store[k].resetTime < t})

InitLimiter ==
    /\ env = [GEMINI_API_KEY |-> TRUE, RESEND_API_KEY |-> TRUE,
              CRON_SECRET |-> TRUE, production |-> TRUE]
    /\ searches = [s \in SearchIds |->
                      [exists |-> TRUE, isActive |-> TRUE, lastChecked |-> NULL]]
    /\ listingTbl = {}
    /\ browserInstance = NULL
    /\ openBrowsers = {}
    /\ rateLimitStore = EmptyMap
    /\ emails = {}
    /\ pc = [p \in Proc |-> "idle"]
    /\ loc = [p \in Proc |-> InitLocal]
    /\ scans = [p \in Proc |-> 0]
    /\ sweeps = 0
    /\ manuals = 0
    /\ userOps = 0
    /\ evalIn = FailReply("throws")
    /\ evalOut = <<>>
    /\ callIn \in {[fn |-> "checkRateLimit", config |-> c] : c \in LimiterConfigs}
    /\ callOut = <<>>
    /\ NoRequests

LimiterFrame ==
    UNCHANGED <<env, dbVars, browserVars, emails, pc, loc, scans, sweeps,
                manuals, userOps, evalIn, evalOut, callIn, conversation>>

\* time passes
Tick ==
    /\ now + SECOND <= MaxLimiterNow
    /\ now' = now + SECOND
    /\ UNCHANGED <<rateLimitStore, callOut, served>>
    /\ LimiterFrame

\* the cleanup timer fires
Cleanup ==
    /\ rateLimitStore' = CleanedUp(rateLimitStore, now)
    /\ rateLimitStore' # rateLimitStore
    /\ UNCHANGED <<now, callOut, served>>
    /\ LimiterFrame

\* one call of checkRateLimit
CallCheckRateLimit(identifier) ==
    /\ Len(served) < MaxLimiterCalls
    /\ LET r == checkRateLimit(rateLimitStore, identifier, callIn.config, now)
       IN /\ rateLimitStore' = r.store
          /\ callOut' = <<[allowed |-> r.allowed, remaining |-> r.remaining,
                           resetIn |-> r.resetIn]>>
          /\ served' = Append(served, [identifier |-> identifier, at |-> now,
                                       allowed |-> r.allowed,
                                       remaining |-> r.remaining])
    /\ UNCHANGED now
    /\ LimiterFrame

NextLimiter ==
    \/ Tick
    \/ Cleanup
    \/ \E identifier \in LimiterIdentifiers : CallCheckRateLimit(identifier)

SpecLimiter == InitLimiter /\ [][NextLimiter]_vars

----------------------------------------------------------------------------

(* POST /api/searches/[id] under the timed limiter: requests for the       *)
(* searches of one user from several client addresses, the clock advancing *)
(* half an hour at a time.  processSearch is entered when both checks      *)
(* pass; its steps do not touch the limiter.                               *)

MaxScanPosts == 7
MaxScanNow == 5400000

HALF_HOUR == 30 * 60 * SECOND

RATE_LIMITS ==
    [chat |-> [maxRequests |-> 30, windowMs |-> 60 * SECOND],
     scan |-> [maxRequests |-> SCAN_MAX_REQUESTS,
               windowMs |-> 60 * 60 * SECOND],
     createAlert |-> [maxRequests |-> 10, windowMs |-> 60 * 60 * SECOND],
     search |-> [maxRequests |-> 60, windowMs |-> 60 * SECOND]]

\* getClientIP(request)
ClientIPs == {"ip1", "ip2"}

\* search.user.email: the searches belong to one user
UserEmail(id) == "user@example.com"

\* the handler up to the call of processSearch: the status it answers with
\* when it stops early (200 stands for processSearch entered), and the
\* store it leaves
PostScan(store, clientIP, id, t) ==
    LET rateLimit == checkRateLimit(store, "scan:" \o clientIP,
                                    RATE_LIMITS.scan, t)
    IN IF ~rateLimit.allowed
       THEN [status |-> 429, store |-> rateLimit.store]
       ELSE IF ~searches[id].exists
       THEN [status |-> 404, store |-> rateLimit.store]
       ELSE LET userRateLimit ==
                    checkRateLimit(rateLimit.store, "scan:" \o UserEmail(id),
                                   RATE_LIMITS.scan, t)
            IN IF ~userRateLimit.allowed
               THEN [status |-> 429, store |-> userRateLimit.store]
               ELSE [status |-> 200, store |-> userRateLimit.store]

InitScanLimit ==
    /\ env = [GEMINI_API_KEY |-> TRUE, RESEND_API_KEY |-> TRUE,
              CRON_SECRET |-> TRUE, production |-> TRUE]
    /\ searches = [s \in SearchIds |->
                      [exists |-> TRUE, isActive |-> TRUE, lastChecked |-> NULL]]
    /\ listingTbl = {}
    /\ browserInstance = NULL
    /\ openBrowsers = {}
    /\ rateLimitStore = EmptyMap
    /\ emails = {}
    /\ pc = [p \in Proc |-> "idle"]
    /\ loc = [p \in Proc |-> InitLocal]
    /\ scans = [p \in Proc |-> 0]
    /\ sweeps = 0
    /\ manuals = 0
    /\ userOps = 0
    /\ evalIn = FailReply("throws")
    /\ evalOut = <<>>
    /\ callIn = [fn |-> "POST /api/searches/[id]"]
    /\ callOut = <<>>
    /\ NoRequests

\* time passes
HalfHourPasses ==
    /\ now + HALF_HOUR <= MaxScanNow
    /\ now' = now + HALF_HOUR
    /\ UNCHANGED <<rateLimitStore, callOut, served>>
    /\ LimiterFrame

\* one request
PostScanRequest(clientIP, id) ==
    /\ Len(served) < MaxScanPosts
    /\ LET r == PostScan(rateLimitStore, clientIP, id, now)
       IN /\ rateLimitStore' = r.store
          /\ callOut' = <<r.status>>
          /\ served' = Append(served, [clientIP |-> clientIP, id |-> id,
                                       email |-> UserEmail(id), at |-> now,
                                       status |-> r.status])
    /\ UNCHANGED now
    /\ LimiterFrame

NextScanLimit ==
    \/ HalfHourPasses
    \/ Cleanup
    \/ \E clientIP \in ClientIPs, id \in ManualTargets :
           PostScanRequest(clientIP, id)

SpecScanLimit == InitScanLimit /\ [][NextScanLimit]_vars

----------------------------------------------------------------------------

(* The searches of an account: creations by either route, PATCH and DELETE *)
(* requests, each request served whole.                                    *)

MaxAccountSearches == 11
MaxAccountOps == 2

MAX_ACTIVE_SEARCHES == 10

Emails == {"user@example.com", "other@example.com"}

\* the ids prisma hands out, in order of creation
AccountSearchIds == 1..MaxAccountSearches

\* prisma.search.count({where: {user: {email}, isActive: true}})
ActiveSearchCount(email) ==
    Cardinality({id \in DOMAIN searches :
                    /\ searches[id].exists
                    /\ searches[id].isActive
                    /\ searches[id].email = email})

\* existingSearches >= 10
AtLimit(email) == ActiveSearchCount(email) >= MAX_ACTIVE_SEARCHES

\* ids handed out so far (a deleted row keeps its id used)
IdsUsed == {id \in DOMAIN searches : searches[id].email # ""}

\* prisma.search.create: isActive defaults to true
CreateSearch(email) ==
    LET id == Cardinality(IdsUsed) + 1
    IN [searches EXCEPT ![id] = [exists |-> TRUE, isActive |-> TRUE,
                                 lastChecked |-> NULL, email |-> email]]

InitAccount ==
    /\ env = [GEMINI_API_KEY |-> TRUE, RESEND_API_KEY |-> TRUE,
              CRON_SECRET |-> TRUE, production |-> TRUE]
    /\ searches = [id \in AccountSearchIds |->
                      [exists |-> FALSE, isActive |-> FALSE,
                       lastChecked |-> NULL, email |-> ""]]
    /\ listingTbl = {}
    /\ browserInstance = NULL
    /\ openBrowsers = {}
    /\ rateLimitStore = EmptyMap
    /\ emails = {}
    /\ pc = [p \in Proc |-> "idle"]
    /\ loc = [p \in Proc |-> InitLocal]
    /\ scans = [p \in Proc |-> 0]
    /\ sweeps = 0
    /\ manuals = 0
    /\ userOps = 0
    /\ evalIn = FailReply("throws")
    /\ evalOut = <<>>
    /\ callIn = [fn |-> "account"]
    /\ callOut = <<>>
    /\ NoRequests

AccountFrame ==
    UNCHANGED <<env, listingTbl, browserVars, rateLimitStore, emails, pc, loc,
                scans, sweeps, manuals, userOps, evalVars, requestVars>>

\* the chat route once the conversation is complete: count, then create
ChatCreatesSearch(email) ==
    /\ Cardinality(IdsUsed) < MaxAccountSearches
    /\ ~AtLimit(email)
    /\ searches' = CreateSearch(email)
    /\ AccountFrame

\* POST /api/searches: count, then create
PostSearch(email) ==
    /\ Cardinality(IdsUsed) < MaxAccountSearches
    /\ ~AtLimit(email)
    /\ searches' = CreateSearch(email)
    /\ AccountFrame

NextAccount ==
    \/ \E email \in Emails : ChatCreatesSearch(email)
    \/ \E email \in Emails : PostSearch(email)
    \/ \E id \in AccountSearchIds, isActive \in BOOLEAN :
           /\ userOps < MaxAccountOps
           /\ searches[id].isActive # isActive
           /\ PatchSearch(id, isActive)
    \/ \E id \in AccountSearchIds :
           userOps < MaxAccountOps /\ DeleteSearch(id)

SpecAccount == InitAccount /\ [][NextAccount]_vars

----------------------------------------------------------------------------

(* POST /api/chat: the messages of one conversation, each request served   *)
(* whole, the model's reply to each message drawn freely.                  *)

MaxChatPosts == 4

MAX_CONVERSATION_MESSAGES == 50

\* what the model extracts from a message: '' stands for null
ExtractedFields ==
    [itemType : {"", "bike"}, zipcode : {"", "94103"},
     email : {"", "user@example.com"}]

\* the outcomes of chat.sendMessage: a JSON reply, or a failure (the call
\* throws, or the text has no JSON)
ChatReplies ==
    {[kind |-> "fails"]}
      \cup {[kind |-> "json", extracted |-> x, isComplete |-> c] :
               x \in ExtractedFields, c \in BOOLEAN}

\* a || b for strings
OrElse(a, b) == IF a # "" THEN a ELSE b

\* the ConversationState the route builds from the row
StateOf(row) ==
    [itemType |-> row.itemType, zipcode |-> row.zipcode, email |-> row.email,
     isComplete |-> row.isComplete]

\* processChat: the new state, or the current one when the reply fails
processChat(reply, currentState) ==
    IF reply.kind = "fails"
    THEN currentState
    ELSE [itemType |-> OrElse(reply.extracted.itemType, currentState.itemType),
          zipcode |-> OrElse(reply.extracted.zipcode, currentState.zipcode),
          email |-> OrElse(reply.extracted.email, currentState.email),
          isComplete |-> reply.isComplete]

\* prisma.conversation.create({data: {}})
NewConversation ==
    [stored |-> TRUE, messages |-> 0, itemType |-> "", zipcode |-> "",
     email |-> "", isComplete |-> FALSE, searchId |-> 0]

\* state.isComplete && state.itemType && state.zipcode && state.email
ReadyToCreate(state) ==
    state.isComplete /\ state.itemType # "" /\ state.zipcode # ""
        /\ state.email # ""

InitChat ==
    /\ env \in EnvConfigs
    /\ searches = [id \in AccountSearchIds |->
                      [exists |-> FALSE, isActive |-> FALSE,
                       lastChecked |-> NULL, email |-> ""]]
    /\ listingTbl = {}
    /\ browserInstance = NULL
    /\ openBrowsers = {}
    /\ rateLimitStore = EmptyMap
    /\ emails = {}
    /\ pc = [p \in Proc |-> "idle"]
    /\ loc = [p \in Proc |-> InitLocal]
    /\ scans = [p \in Proc |-> 0]
    /\ sweeps = 0
    /\ manuals = 0
    /\ userOps = 0
    /\ evalIn = FailReply("throws")
    /\ evalOut = <<>>
    /\ callIn = [fn |-> "POST /api/chat"]
    /\ callOut = <<>>
    /\ NoRequests

ChatFrame ==
    UNCHANGED <<env, listingTbl, browserVars, emails, pc, loc, scans, sweeps,
                manuals, userOps, evalIn, evalOut, callIn, now>>

\* the request is answered with a status before any write to the database
ChatRefused(store, status) ==
    /\ rateLimitStore' = store
    /\ callOut' = <<status>>
    /\ served' = Append(served, [status |-> status, searchId |-> 0])
    /\ UNCHANGED <<searches, conversation>>

\* one message of the conversation (the first one creates it)
PostChat(clientIP, reply) ==
    /\ Len(served) < MaxChatPosts
    /\ ChatFrame
    /\ LET rateLimit == checkRateLimit(rateLimitStore, "chat:" \o clientIP,
                                       RATE_LIMITS.chat, now)
           row == IF conversation.stored THEN conversation
                  ELSE NewConversation
           state == processChat(reply, StateOf(row))
           updated == [row EXCEPT !.messages = @ + 2,
                                  !.itemType = state.itemType,
                                  !.zipcode = state.zipcode,
                                  !.email = state.email,
                                  !.isComplete = state.isComplete]
       IN IF ~rateLimit.allowed THEN ChatRefused(rateLimit.store, 429)
          ELSE IF ~env.GEMINI_API_KEY THEN ChatRefused(rateLimit.store, 500)
          ELSE IF row.messages > MAX_CONVERSATION_MESSAGES
          THEN ChatRefused(rateLimit.store, 400)
          ELSE /\ rateLimitStore' = rateLimit.store
               /\ callOut' = <<200>>
               /\ IF ReadyToCreate(state) /\ ~AtLimit(state.email)
                      /\ Cardinality(IdsUsed) < MaxAccountSearches
                  THEN LET id == Cardinality(IdsUsed) + 1
                       IN /\ searches' = CreateSearch(state.email)
                          /\ conversation' = [updated EXCEPT !.searchId = id]
                          /\ served' = Append(served, [status |-> 200,
                                                       searchId |-> id])
                  ELSE /\ conversation' = updated
                       /\ served' = Append(served, [status |-> 200,
                                                    searchId |-> 0])
                       /\ UNCHANGED searches

NextChat ==
    \E clientIP \in ClientIPs, reply \in ChatReplies : PostChat(clientIP, reply)

SpecChat == InitChat /\ [][NextChat]_vars

----------------------------------------------------------------------------

----------------------------------------------------------------------------
(* Properties *)

NeutralAssessment ==
    [score |-> Num(50), isGoodDeal |-> FALSE, condition |-> "unknown",
     identifiedProduct |-> "null", retailPriceRange |-> "null"]

RECURSIVE SumReturned(_)
SumReturned(outs) ==
    IF outs = <<>> THEN ZeroCounts
    ELSE LET rest == SumReturned(Tail(outs)) IN
         IF Head(outs).threw THEN rest ELSE AddCounts(Head(outs).result, rest)

IsGoodCreated(c) == c.isGoodDeal

\* C1: after any sequence of scans the Listing table holds at most one row
\* per (searchId, externalId); scanning the same acquisition result again
\* inserts nothing twice.
C1_UniqueListing ==
    \A r1 \in listingTbl, r2 \in listingTbl :
        (r1.searchId = r2.searchId /\ r1.externalId = r2.externalId)
            => r1 = r2

\* a scan has passed over a candidate that another scan had stored
C1_Witness ==
    \E p \in Proc :
        /\ pc[p] = "ps_loop"
        /\ loc[p].i = 2
        /\ loc[p].created = <<>>
        /\ \E r \in listingTbl :
              /\ r.searchId = loc[p].sid
              /\ r.externalId = loc[p].listings[1]
              /\ r.id.scan # loc[p].scanNo

\* C2 (as claimed): a Listing has alertSent = true only if it was one of the
\* deals of an alert email the provider accepted.
C2_AlertSentOnlyIfEmailed ==
    \A r \in listingTbl :
        r.alertSent =>
            \E e \in emails :
                /\ e.searchId = r.searchId
                /\ \E k \in 1 .. Len(e.deals) : e.deals[k].rowId = r.id

\* C3: the bulk alert-flag update of a scan changes no listing that already
\* had alertSent = true and no listing of another search, and a deal enters
\* the scan's alert batch only as a row the same step has just inserted
\* (not sent, not there before), so no listing sent earlier is in the batch.
C3_MarkFrame ==
    [][\A p \in Proc :
          /\ (pc[p] = "ps_mark" /\ pc'[p] # "ps_mark") =>
                \A r \in listingTbl :
                    (r.alertSent \/ r.searchId # loc[p].sid)
                        => r \in listingTbl'
          /\ Len(loc'[p].dealsToAlert) > Len(loc[p].dealsToAlert) =>
                LET d == loc'[p].dealsToAlert[Len(loc'[p].dealsToAlert)] IN
                /\ \A r \in listingTbl : r.id # d.rowId
                /\ \E r \in listingTbl' : r.id = d.rowId /\ ~r.alertSent
      ]_vars

\* a scan has marked its batch while the table held a listing of the same
\* search sent by an earlier scan and a listing of another search
C3_Witness ==
    \E p \in Proc :
        /\ pc[p] = "ps_ret"
        /\ loc[p].result.alertsSent > 0
        /\ \E r \in listingTbl :
              /\ r.searchId = loc[p].sid
              /\ r.alertSent
              /\ r.id.scan # loc[p].scanNo
        /\ \E r \in listingTbl : r.searchId # loc[p].sid

\* C4: the good-deal flag is derived from the clamped score: every
\* assessment returned to a scan and every stored Listing has
\* isGoodDeal = (score >= 70), whatever flag the model reported.
C4_GoodDealDerived ==
    /\ \A p \in Proc :
          pc[p] = "ps_create" =>
              (loc[p].evaluation.isGoodDeal
                  <=> (~loc[p].evaluation.score.nan
                       /\ loc[p].evaluation.score.v >= 70))
    /\ \A r \in listingTbl :
          r.isGoodDeal <=> (~r.dealScore.nan /\ r.dealScore.v >= 70)

\* stored: a listing scored 60 that the model had called a good deal (the
\* only reply of the scans with that score), flagged as no good deal
C4_Witness ==
    \E r \in listingTbl : r.dealScore = Num(60) /\ ~r.isGoodDeal

\* C5 (as claimed): the score returned by evaluateListing is an integer in
\* [1,100] whatever the model replied.
C5_ScoreInRange ==
    evalOut # <<>> =>
        /\ ~evalOut[1].score.nan
        /\ evalOut[1].score.v >= 1
        /\ evalOut[1].score.v <= 100

\* C6: when the model call throws, or the reply holds no JSON object or a
\* malformed one, the assessment is the neutral fallback, the evaluation
\* does not make the scan throw, and the insert that follows stores the
\* listing with that assessment.
C6_FallbackOnFailure ==
    /\ [](\A p \in Proc :
             (pc[p] = "ps_create"
              /\ loc[p].reply.kind \in {"throws", "nojson", "malformed"})
                 => loc[p].evaluation = NeutralAssessment)
    /\ [][\A p \in Proc :
             /\ (pc[p] = "ps_loop" /\ loc[p].i <= Len(loc[p].listings))
                   => pc'[p] \in {"ps_loop", "ps_eval"}
             /\ pc[p] = "ps_eval" => pc'[p] \in {"ps_eval", "ps_create"}
             /\ (/\ pc[p] = "ps_create"
                 /\ loc[p].reply.kind \in {"throws", "nojson", "malformed"}
                 /\ pc'[p] = "ps_loop")
                   => \E r \in listingTbl' \ listingTbl :
                         /\ r.searchId = loc[p].sid
                         /\ r.externalId = loc[p].listings[loc[p].i]
                         /\ r.dealScore = Num(50)
                         /\ ~r.isGoodDeal
                         /\ r.condition = "unknown"
                         /\ r.identifiedProduct = "null"
                         /\ r.retailPriceRange = "null"
       ]_vars

\* a listing stored with the neutral assessment
C6_Witness ==
    \E r \in listingTbl :
        /\ r.dealScore = Num(50)
        /\ r.condition = "unknown"
        /\ ~r.isGoodDeal

\* C7: when a sweep has finished, processSearch was called for every search
\* of its snapshot in order, whichever calls threw, and the totals are the
\* sum of the counts of the calls that returned.
C7_BatchIsolation ==
    \A p \in Proc :
        pc[p] = "pa_ret" =>
            /\ loc[p].attempted = loc[p].activeSearches
            /\ Len(loc[p].outcomes) = Len(loc[p].activeSearches)
            /\ loc[p].totals = SumReturned(loc[p].outcomes)

\* a finished sweep whose first scan threw and whose second stored a listing
C7_Witness ==
    \E p \in Proc :
        /\ pc[p] = "pa_ret"
        /\ Len(loc[p].outcomes) = 2
        /\ loc[p].outcomes[1].threw
        /\ ~loc[p].outcomes[2].threw
        /\ loc[p].outcomes[2].result.newListings > 0
        /\ loc[p].totals = loc[p].outcomes[2].result

\* C8: a sweep calls closeBrowser exactly once, only after every search of
\* its snapshot has been processed, and at the moment processAllSearches
\* returns browserInstance is null.
C8_BrowserReleased ==
    /\ [](\A p \in Proc :
             /\ loc[p].closeCalls <= 1
             /\ loc[p].closeCalls = 1 =>
                   Len(loc[p].outcomes) = Len(loc[p].activeSearches))
    /\ [][\A p \in Proc :
             (pc[p] # "pa_ret" /\ pc'[p] = "pa_ret") =>
                 /\ browserInstance' = NULL
                 /\ loc'[p].closeCalls = 1
       ]_vars

\* a sweep has returned after a scan that threw and a scan that used the
\* browser, and it has closed a session
C8_Witness ==
    \E p \in Proc :
        /\ pc[p] = "pa_ret"
        /\ loc[p].closeCalls = 1
        /\ browserInstance = NULL
        /\ openBrowsers = {}
        /\ \E k \in 1 .. Len(loc[p].outcomes) : loc[p].outcomes[k].threw
        /\ \E k \in 1 .. Len(loc[p].outcomes) :
               loc[p].outcomes[k].result.newListings > 0

C10_InactiveNoEffect ==
    [][\A p \in Proc :
          (/\ pc[p] = "ps_find"
           /\ pc'[p] # "ps_find"
           /\ ~(searches[loc[p].sid].exists /\ searches[loc[p].sid].isActive))
              => /\ pc'[p] = "ps_ret"
                 /\ loc'[p].result = ZeroCounts
                 /\ loc'[p].browser = NULL
                 /\ loc'[p].listings = <<>>
                 /\ UNCHANGED <<searches, listingTbl, emails,
                                browserInstance, openBrowsers>>
      ]_vars

\* a scan of a search deleted meanwhile has returned zero counts without a
\* browser
C10_Witness ==
    \E p \in Proc :
        /\ pc[p] = "ps_ret"
        /\ loc[p].browser = NULL
        /\ loc[p].result = ZeroCounts
        /\ ~searches[loc[p].sid].exists

\* C11 (as claimed): a scan that found its search existing and active and
\* has returned to its caller has set the search's lastChecked, whatever
\* acquisition, evaluation, the credential check and the notification did
\* (scans served one at a time, so the timestamp is still this scan's).
C11_LastCheckedUpdated ==
    \A p \in Proc :
        (/\ pc[p] = "ps_ret"
         /\ loc[p].browser # NULL
         /\ searches[loc[p].sid].exists)
            => searches[loc[p].sid].lastChecked = loc[p].scanNo

\* C12: without GEMINI_API_KEY no scan ever enters the evaluation loop: a
\* scan that got as far as the acquisition returns zero counts straight
\* after it, no listing is evaluated, no Listing row is stored and no email
\* is sent.
C12_NoCredentialNoWork ==
    ~env.GEMINI_API_KEY =>
        /\ listingTbl = {}
        /\ emails = {}
        /\ \A p \in Proc :
              /\ pc[p] \notin {"ps_loop", "ps_eval", "ps_create", "ps_email",
                             "ps_mark"}
              /\ loc[p].reply = FailReply("none")
              /\ loc[p].created = <<>>
              /\ loc[p].notified = <<>>
              /\ pc[p] = "ps_ret" => loc[p].result = ZeroCounts

\* without the credential a scan whose acquisition found a candidate has
\* returned
C12_Witness ==
    /\ ~env.GEMINI_API_KEY
    /\ \E p \in Proc :
          /\ pc[p] = "ps_ret"
          /\ loc[p].listings # <<>>

\* C13 (as claimed): when a scan returns, newListings is the number of
\* rows this scan inserted, goodDeals the number of those that are good
\* deals, and alertsSent the number of listings whose alertSent the scan
\* turned to true (0 after a failed notification or with an empty batch);
\* so alertsSent <= goodDeals <= newListings. Stated for the scans whose
\* search still exists when they return (a DELETE cascades to the rows).
C13_CountsExact ==
    [][\A p \in Proc :
          (/\ pc[p] # "ps_ret"
           /\ pc'[p] = "ps_ret"
           /\ searches[loc[p].sid].exists) =>
              LET res == loc'[p].result
                  flipped == {r \in listingTbl :
                                 /\ ~r.alertSent
                                 /\ \E r2 \in listingTbl' :
                                       r2.id = r.id /\ r2.alertSent}
              IN /\ res.newListings = Len(loc'[p].created)
                 /\ res.goodDeals =
                        Len(SelectSeq(loc'[p].created, IsGoodCreated))
                 /\ res.alertsSent = Cardinality(flipped)
                 /\ res.alertsSent <= res.goodDeals
                 /\ res.goodDeals <= res.newListings
      ]_vars

\* C14 (as claimed): when the notification of a scan fails (no credential,
\* provider error, send exception) the scan returns normally with
\* alertsSent = 0, the failed call removes no listing, and every listing the
\* scan stored has alertSent = false at the moment the scan returns.
C14_FailedNotifyKeepsUnsent ==
    [][\A p \in Proc :
          (pc[p] = "ps_email" /\ pc'[p] \notin {"ps_email", "ps_mark"}) =>
              /\ pc'[p] = "ps_ret"
              /\ loc'[p].result.alertsSent = 0
              /\ listingTbl' = listingTbl
              /\ \A r \in listingTbl' :
                    r.id.scan = loc[p].scanNo => ~r.alertSent
      ]_vars

\* C15 (as claimed): a good deal stored by a scan that has ended without an
\* accepted email is in no email sent later and keeps alertSent = false,
\* whatever scans of the same search follow.
C15_UnsentStaysUnsent ==
    \A r \in listingTbl :
        (/\ r.isGoodDeal
         /\ \A p \in Proc : loc[p].scanNo # r.id.scan
         /\ \A e \in emails : e.scanNo # r.id.scan)
            => /\ ~r.alertSent
               /\ \A e \in emails :
                     \A k \in 1 .. Len(e.deals) : e.deals[k].rowId # r.id

\* C16 (as claimed): whatever requests the cron route and the manual scan
\* route receive, at no time are two scans in progress and at no time are
\* two calls of evaluateListing awaiting the model.
C16_OneScanAtATime ==
    /\ Cardinality({p \in Proc : pc[p] \in ScanPcs}) <= 1
    /\ Cardinality({p \in Proc : pc[p] = "ps_eval"}) <= 1

\* (as claimed, the second half alone) no two evaluations are in flight
C16_OneEvaluationAtATime ==
    Cardinality({p \in Proc : pc[p] = "ps_eval"}) <= 1

\* C17: a sweep scans its searches strictly one after another, in the
\* order of its snapshot: it starts a scan only when every scan it started
\* before has an outcome, and it moves on from a scan only when that scan
\* has returned or thrown; a scan that returned past the credential check
\* has by then gone through all its candidates, updated lastChecked and
\* made its one notifier call if it had deals.
C17_SweepSequential ==
    [][\A p \in CronTasks :
          /\ Len(loc'[p].attempted) > Len(loc[p].attempted) =>
                /\ pc[p] = "pa_loop"
                /\ Len(loc[p].outcomes) = Len(loc[p].attempted)
                /\ loc'[p].attempted =
                       SubSeq(loc[p].activeSearches, 1,
                              Len(loc[p].attempted) + 1)
          /\ Len(loc'[p].outcomes) > Len(loc[p].outcomes) =>
                /\ pc[p] \in {"ps_ret", "ps_threw"}
                /\ Len(loc'[p].outcomes) = Len(loc[p].attempted)
                /\ (/\ pc[p] = "ps_ret"
                    /\ loc[p].browser # NULL
                    /\ env.GEMINI_API_KEY) =>
                      /\ loc[p].i = Len(loc[p].listings) + 1
                      /\ Len(loc[p].notified) =
                             (IF loc[p].dealsToAlert = <<>> THEN 0 ELSE 1)
      ]_vars

\* a sweep is in its second scan after a first scan that stored a listing
\* and returned
C17_Witness ==
    \E p \in CronTasks :
        /\ pc[p] \in ScanPcs
        /\ Len(loc[p].attempted) = 2
        /\ Len(loc[p].outcomes) = 1
        /\ ~loc[p].outcomes[1].threw
        /\ loc[p].outcomes[1].result.newListings > 0

\* C18 (as claimed): the browser is a process-wide singleton: at any time
\* at most one launched browser exists, every scan in its acquisition
\* holds the session browserInstance refers to, and every launched browser
\* is the one browserInstance refers to, so that closeBrowser can release it.
C18_BrowserSingleton ==
    /\ Cardinality(openBrowsers) <= 1
    /\ openBrowsers \subseteq {browserInstance}
    /\ \A p \in Proc :
          (pc[p] \in {"ps_ctx", "ps_scrape"} /\ loc[p].browser \in openBrowsers)
              => loc[p].browser = browserInstance

\* C19: closeBrowser called without a session does nothing and does not
\* fail; a call leaves no session behind, so a second call in a row finds
\* none and leaves the state of the first; the next acquisition launches a
\* new browser and works on it.
C19_CloseBrowserIdempotent ==
    [][\A p \in CronTasks :
          /\ (loc'[p].closeCalls > loc[p].closeCalls
              /\ browserInstance = NULL) =>
                /\ pc'[p] = "pa_ret"
                /\ UNCHANGED <<browserInstance, openBrowsers>>
          /\ pc'[p] # "pa_threw"
          /\ (pc[p] # "pa_ret" /\ pc'[p] = "pa_ret") =>
                /\ browserInstance' = NULL
                /\ openBrowsers' = {}
          /\ (pc[p] # "ps_ctx" /\ pc'[p] = "ps_ctx") =>
                /\ loc'[p].browser = browserInstance'
                /\ loc'[p].browser \in openBrowsers'
                /\ browserInstance = NULL => loc'[p].browser \notin openBrowsers
      ]_vars

\* the third sweep acquires on a new browser in its first scan, the third
\* scan in all: the first sweep had scanned both searches and closed its
\* session, and the second, both searches switched off, had called
\* closeBrowser without a session
C19_Witness ==
    \E p \in CronTasks :
        /\ sweeps = 3
        /\ userOps = 3
        /\ pc[p] = "ps_scrape"
        /\ loc[p].sid = "s1"
        /\ loc[p].scanNo = [task |-> p, n |-> 3]
        /\ loc[p].browser = loc[p].scanNo
        /\ browserInstance = loc[p].browser
        /\ openBrowsers = {loc[p].browser}
        /\ searches["s1"].lastChecked = [task |-> p, n |-> 1]
        /\ searches["s2"].lastChecked = [task |-> p, n |-> 2]

\* C20 (as claimed): when the search page cannot be reached the acquisition
\* yields the empty list and raises nothing, its browser context is closed,
\* and the scan ends as any scan without news: zero counts, no notifier
\* call, lastChecked set (scans served one at a time; a scan can still throw
\* on the lastChecked update of a search deleted meanwhile).
C20_UnreachableIsNormal ==
    \A p \in Proc :
        ~loc[p].reached =>
            /\ loc[p].listings = <<>>
            /\ loc[p].context = "closed"
            /\ loc[p].notified = <<>>
            /\ pc[p] = "ps_threw" => ~searches[loc[p].sid].exists
            /\ pc[p] = "ps_ret" =>
                  /\ loc[p].result = ZeroCounts
                  /\ searches[loc[p].sid].exists =>
                        searches[loc[p].sid].lastChecked = loc[p].scanNo

----------------------------------------------------------------------------
(* Acquisition *)

\* the rows of the page the detail loop visits with a link and a title
VisitedRows(page, limit) ==
    {k \in 1 .. Len(page) :
        /\ k <= LimitOf(limit)
        /\ k <= DETAIL_LIMIT
        /\ page[k].url /\ page[k].title}

\* C21: a detail page that fails to load (the search page staying usable)
\* costs nothing but its own details: every visited row is returned as a
\* candidate, in page order, the failed ones with no description (null, from
\* '' || null) and an empty image list, the others with their details.
C21_DetailFailureNonFatal ==
    (/\ callOut # <<>>
     /\ callIn.reached
     /\ \A k \in VisitedRows(callIn.page, callIn.limit) :
           callIn.page[k].detail # "gone")
    => LET rows == VisitedRows(callIn.page, callIn.limit)
           listings == callOut[1].listings
       IN  /\ Len(listings) = Cardinality(rows)
           /\ \A j \in 1 .. Len(listings) :
                 /\ listings[j].externalId \in rows
                 /\ \A h \in 1 .. Len(listings) :
                       h < j => listings[h].externalId < listings[j].externalId
                 /\ LET row == callIn.page[listings[j].externalId] IN
                    IF row.detail = "fail"
                    THEN /\ listings[j].description = "null"
                         /\ listings[j].imageUrls = <<>>
                    ELSE /\ listings[j].description = "text"
                         /\ listings[j].imageUrls = <<"img">>

\* the second of four rows fails to load: four candidates come back, the
\* second without details
C21_Witness ==
    /\ callOut # <<>>
    /\ callIn.reached
    /\ Len(callIn.page) = 4
    /\ callIn.page[2].detail = "fail"
    /\ callIn.page[3].detail = "ok"
    /\ Len(callOut[1].listings) = 4
    /\ callOut[1].listings[2].description = "null"
    /\ callOut[1].listings[2].imageUrls = <<>>
    /\ callOut[1].listings[3].description = "text"
    /\ callOut[1].visits = 4

\* C28: a scan (limit 15) gets at most 15 candidates from its acquisition,
\* so it evaluates at most 15 listings and inserts at most 15 rows; the
\* acquisition opens at most 10 detail pages.
C28_PerScanCaps ==
    callOut # <<>> =>
        /\ callOut[1].visits <= 10
        /\ callIn.limit = SCAN_LIMIT =>
              /\ Len(callOut[1].listings) <= 15
              /\ callOut[1].evaluated <= 15
              /\ callOut[1].inserted <= 15
              /\ callOut[1].evaluated <= Len(callOut[1].listings)
              /\ callOut[1].inserted <= callOut[1].evaluated

\* a page of more rows than either cap, all of them new to the search: the
\* scan has visited ten detail pages and evaluated and inserted ten listings
C28_Witness ==
    /\ callOut # <<>>
    /\ callIn.limit = SCAN_LIMIT
    /\ Len(callIn.page) = MaxPageRows
    /\ \A k \in 1 .. Len(callIn.page) : callIn.page[k] = GoodRow(k)
    /\ callOut[1].visits = 10
    /\ Len(callOut[1].listings) = 10
    /\ callOut[1].i = 11
    /\ callOut[1].evaluated = 10
    /\ callOut[1].inserted = 10

----------------------------------------------------------------------------
(* Notifier and helpers *)

\* C22: sendDealAlertEmail always returns: false without attempting a send
\* when RESEND_API_KEY is not set, false when the provider answers with an
\* error or the send throws, true exactly when a send was attempted and the
\* provider accepted the message.
C22_EmailNeverRaises ==
    (callIn.fn = "email" /\ callOut # <<>>) =>
        /\ callOut[1].returned
        /\ ~env.RESEND_API_KEY => ~callOut[1].value /\ ~callOut[1].attempted
        /\ callIn.outcome \in {"error", "throws"} => ~callOut[1].value
        /\ callOut[1].value <=>
              /\ env.RESEND_API_KEY
              /\ callOut[1].attempted
              /\ callIn.outcome = "accepted"

\* the credential is configured and the send throws: the call has returned
\* false
C22_Witness ==
    /\ callIn.fn = "email"
    /\ callIn.outcome = "throws"
    /\ env.RESEND_API_KEY
    /\ callOut # <<>>
    /\ callOut[1].returned
    /\ callOut[1].attempted
    /\ ~callOut[1].value

\* the entries of the table whose keyword occurs in the lower-cased query
KeywordHits(query) ==
    {k \in 1 .. Len(CATEGORY_MAP) :
        Includes(ToLowerCase(query), CATEGORY_MAP[k][1])}

\* C29: getCategoryFromQuery returns the category of the first entry, in
\* table order, whose keyword occurs in the query regardless of case, and the
\* generic category sss when no keyword occurs; "mountain bike rental" gives
\* the bicycle category, "antique lamp" the generic one.
C29_CategoryFromQuery ==
    (callIn.fn = "category" /\ callOut # <<>>) =>
        LET hits == KeywordHits(callIn.query) IN
        /\ hits = {} => callOut[1] = "sss"
        /\ \A k \in hits :
              (\A h \in hits : k <= h) => callOut[1] = CATEGORY_MAP[k][2]
        /\ callIn.query = "mountain bike rental" => callOut[1] = "bia"
        /\ callIn.query = "antique lamp" => callOut[1] = "sss"
        /\ callIn.query = "Bicycle" => callOut[1] = "bia"

\* a query naming a bike and then a car in capitals: both keywords are
\* found, the earlier table entry (bike) decides
C29_Witness ==
    /\ callIn.fn = "category"
    /\ callIn.query = "bike CAR"
    /\ KeywordHits(callIn.query) = {2, 3}
    /\ callOut = <<"bia">>

\* C30: getRegionFromZipcode gives every postal code the region of its first
\* three characters: codes that agree on them get the same region, a prefix
\* of the table gets its entry ("941" the one of "940", sfbay), any other
\* prefix ("999") the default sfbay.
C30_RegionFromPrefix ==
    (callIn.fn = "region" /\ callOut # <<>>) =>
        LET zipcode == callIn.zipcode
            head(z) == SubSeq(z, 1, IF Len(z) < 3 THEN Len(z) ELSE 3)
        IN  /\ \A other \in ZipCodes :
                  head(other) = head(zipcode) =>
                      getRegionFromZipcode(other) = callOut[1]
            /\ head(zipcode) \in DOMAIN ZIP_TO_REGION =>
                  callOut[1] = ZIP_TO_REGION[head(zipcode)]
            /\ head(zipcode) \notin DOMAIN ZIP_TO_REGION => callOut[1] = "sfbay"
            /\ head(zipcode) = "941" => callOut[1] = ZIP_TO_REGION["940"]
            /\ head(zipcode) = "999" => callOut[1] = "sfbay"

\* a Los Angeles code of five digits: it gets the region of "900", not the
\* default
C30_Witness ==
    /\ callIn.fn = "region"
    /\ callIn.zipcode = "90002"
    /\ callOut = <<"losangeles">>

----------------------------------------------------------------------------
(* Request authorisation *)

\* C27: with CRON_SECRET configured, a request to /api/cron whose
\* Authorization header is not 'Bearer <CRON_SECRET>' is answered 401 and
\* processes nothing, whatever else it carries: no task runs, no search was
\* scanned or stamped, no browser, no row, no email.  So a sweep runs only
\* for a request with the matching header.
C27_CronNeedsSecret ==
    (env.CRON_SECRET /\ callIn.fn = "cron" /\ ~callIn.authMatches) =>
        /\ \A p \in Proc : pc[p] = "idle" /\ scans[p] = 0
        /\ \A s \in SearchIds : searches[s].lastChecked = NULL
        /\ listingTbl = {}
        /\ emails = {}
        /\ browserInstance = NULL
        /\ openBrowsers = {}

\* the secret is configured and a request came with the Vercel cron header
\* but without the matching Authorization header: it was answered and
\* nothing runs
C27_Witness ==
    /\ env.CRON_SECRET
    /\ callIn.fn = "cron"
    /\ ~callIn.authMatches
    /\ callIn.vercelCronHeader
    /\ sweeps = 1
    /\ \A p \in Proc : pc[p] = "idle" /\ scans[p] = 0

----------------------------------------------------------------------------
(* Re-invocation and the Listing rows *)

\* C23: a scan starts an evaluation only for a candidate its search has no
\* row for, and a deal joins its alert batch only as a row that was not
\* stored before; so whatever scans are invoked again on a search, no
\* listing is named twice in the emails sent: not in two emails, not twice in
\* one.
C23_RescanIdempotent ==
    /\ [](\A m1 \in emails, m2 \in emails :
             \A j \in 1 .. Len(m1.deals), h \in 1 .. Len(m2.deals) :
                 (/\ m1.searchId = m2.searchId
                  /\ m1.deals[j].externalId = m2.deals[h].externalId)
                     => (m1 = m2 /\ j = h))
    /\ [][\A p \in Proc :
            /\ (pc[p] = "ps_loop" /\ pc'[p] = "ps_eval") =>
                  ~\E r \in listingTbl :
                      /\ r.searchId = loc[p].sid
                      /\ r.externalId = loc[p].listings[loc[p].i]
            /\ Len(loc'[p].dealsToAlert) > Len(loc[p].dealsToAlert) =>
                  LET d == loc'[p].dealsToAlert[Len(loc'[p].dealsToAlert)] IN
                  ~\E r \in listingTbl :
                      /\ r.searchId = loc[p].sid
                      /\ r.externalId = d.externalId
       ]_vars

\* a later scan of a search has skipped the first candidate, a listing an
\* earlier scan stored and sent: it was not evaluated and is in no batch
C23_Witness ==
    \E p \in Proc :
        /\ pc[p] = "ps_loop"
        /\ loc[p].i = 2
        /\ loc[p].created = <<>>
        /\ loc[p].dealsToAlert = <<>>
        /\ \E r \in listingTbl :
              /\ r.searchId = loc[p].sid
              /\ r.externalId = loc[p].listings[1]
              /\ r.id.scan # loc[p].scanNo
              /\ r.alertSent
              /\ \E m \in emails :
                    /\ m.searchId = r.searchId
                    /\ \E k \in 1 .. Len(m.deals) : m.deals[k].rowId = r.id

\* C24: whatever step is taken, a Listing row that stays in the table keeps
\* every field but alertSent, and a row whose alertSent is true keeps it
\* true.
C24_ListingImmutable ==
    [][\A r \in listingTbl, r2 \in listingTbl' :
          r.id = r2.id =>
              /\ [r2 EXCEPT !.alertSent = r.alertSent] = r
              /\ r.alertSent => r2.alertSent
      ]_vars

\* a row marked as sent by an earlier scan has been through the bulk update
\* of a later scan of the same search, which marked a row of its own
C24_Witness ==
    \E p \in Proc :
        /\ pc[p] = "ps_ret"
        /\ loc[p].result.alertsSent > 0
        /\ \E r \in listingTbl, r2 \in listingTbl :
              /\ r.searchId = loc[p].sid
              /\ r2.searchId = loc[p].sid
              /\ r.id.scan # loc[p].scanNo
              /\ r.alertSent
              /\ r.isGoodDeal
              /\ r2.id.scan = loc[p].scanNo
              /\ r2.alertSent

\* C26: every Listing row references a Search that exists; a DELETE removes
\* the Search together with all of its Listings and no other row; a PATCH of
\* isActive removes no Search and no Listing.
C26_CascadeOnDelete ==
    /\ [](\A r \in listingTbl : searches[r.searchId].exists)
    /\ [][\A id \in SearchIds :
            /\ (searches[id].exists /\ ~searches'[id].exists) =>
                  /\ \A r \in listingTbl' : r.searchId # id
                  /\ \A r \in listingTbl : r.searchId # id => r \in listingTbl'
            /\ searches'[id].isActive # searches[id].isActive =>
                  /\ listingTbl' = listingTbl
                  /\ \A s \in SearchIds :
                        searches'[s].exists = searches[s].exists
       ]_vars

\* a search was deleted after a scan had stored a listing for it: the
\* listing is gone with it
C26_Witness ==
    \E p \in Proc :
        /\ Len(loc[p].created) > 0
        /\ ~searches[loc[p].sid].exists
        /\ \A r \in listingTbl : r.searchId # loc[p].sid

----------------------------------------------------------------------------
(* Assessment fields *)

\* C25: the condition label of every assessment evaluateListing returns is
\* one of excellent, good, fair, poor, unknown.
C25_ConditionLabel ==
    evalOut # <<>> =>
        evalOut[1].condition \in {"excellent", "good", "fair", "poor", "unknown"}

----------------------------------------------------------------------------
(* Conversions of the adapter *)

\* C31: a row that shows a price of d whole dollars (with or without the
\* currency symbol and thousands commas) becomes a candidate whose price is
\* the integer 100 * d, for every d >= 0; the price is null only for a row
\* that shows no price.
C31_PriceNormalized ==
    (callIn.fn = "price" /\ callOut # <<>>) =>
        /\ callIn.listed => callOut[1] = Number(100 * callIn.dollars)
        /\ callOut[1] = JsNull => ~callIn.listed

\* C33: the URL of a scan carries the saved radius of the Search as
\* search_distance (25 only when the Search has none), its query and postal
\* code, and its price bounds in whole currency units when it has them.
C33_UrlEncodesSearch ==
    (callIn.fn = "url" /\ callOut # <<>>) =>
        LET search == callIn.search
            url == callOut[1]
        IN  /\ url.search_distance =
                  IF Truthy(search.radius) THEN search.radius ELSE Number(25)
            /\ url.query = search.query
            /\ url.postal = search.zipcode
            /\ Truthy(search.minPrice) =>
                  /\ url.min_price.v * 100 + url.min_price.frac = search.minPrice.v
                  /\ url.min_price.t = "num"
            /\ Truthy(search.maxPrice) =>
                  /\ url.max_price.v * 100 + url.max_price.frac = search.maxPrice.v
                  /\ url.max_price.t = "num"

----------------------------------------------------------------------------
(* A scan that fails part-way *)

\* the create of candidate i has thrown out of processSearch
FailsAtCandidate(p) == pc[p] = "ps_create" /\ pc'[p] = "ps_threw"

StoredUnsent(id) == \E r \in listingTbl' : r.id = id /\ r.alertSent = FALSE

\* C32: every new candidate is stored by its own insert before the next one
\* is evaluated, and when a scan fails at a candidate the failure undoes
\* nothing: the rows the scan stored for the earlier candidates are still
\* there with alertSent = FALSE and the scan has sent no email
C32_PartialScanPersists ==
    [][\A p \in Proc :
          /\ (pc[p] = "ps_loop" /\ pc'[p] = "ps_eval"
                  /\ searches[loc[p].sid].exists) =>
                 \A j \in 1..(loc[p].i - 1) :
                     ExistingListing(loc[p].sid, loc[p].listings[j])
          /\ (FailsAtCandidate(p) /\ searches[loc[p].sid].exists) =>
                 /\ listingTbl' = listingTbl
                 /\ \A k \in 1..Len(loc[p].created) :
                        StoredUnsent(loc[p].created[k].id)
                 /\ \A m \in emails' : m.scanNo # loc[p].scanNo
      ]_vars

----------------------------------------------------------------------------
(* The rate limiter *)

\* the calls served so far for one identifier, in order
CallsOf(identifier) == SelectSeq(served, LAMBDA c : c.identifier = identifier)

\* the call that opened the window call k of the sequence falls in: the
\* first call, or the first call after the previous window's resetTime
RECURSIVE Opener(_, _, _)
Opener(calls, windowMs, k) ==
    IF k = 1 THEN 1
    ELSE LET o == Opener(calls, windowMs, k - 1)
         IN  IF calls[k].at > calls[o].at + windowMs THEN k ELSE o

\* the calls allowed in the window of call k, up to and including call k
AllowedSoFar(calls, windowMs, k) ==
    Cardinality({j \in 1..k : /\ Opener(calls, windowMs, j) =
                                     Opener(calls, windowMs, k)
                              /\ calls[j].allowed})

\* C34: from the call that opens a window up to the window's resetTime at
\* most maxRequests calls are allowed, an allowed call returns
\* remaining = maxRequests - (calls allowed so far in the window), and a
\* denied call leaves the store as it was
C34_FixedWindow ==
    /\ [](callIn.fn = "checkRateLimit" =>
            \A identifier \in LimiterIdentifiers :
                LET calls == CallsOf(identifier)
                    config == callIn.config
                IN \A k \in 1..Len(calls) :
                     LET n == AllowedSoFar(calls, config.windowMs, k)
                     IN /\ n <= config.maxRequests
                        /\ calls[k].allowed =>
                               calls[k].remaining = config.maxRequests - n)
    /\ [][(callIn.fn = "checkRateLimit" /\ Len(served') > Len(served)
              /\ ~served'[Len(served')].allowed) =>
             rateLimitStore' = rateLimitStore]_vars

\* a window was exhausted, a call was denied in it, and after its resetTime
\* a call was allowed again
C34_Witness ==
    /\ callIn.fn = "checkRateLimit"
    /\ \E identifier \in LimiterIdentifiers :
         LET calls == CallsOf(identifier)
         IN \E i, j \in 1..Len(calls) :
              /\ i < j
              /\ ~calls[i].allowed
              /\ calls[j].allowed
              /\ Opener(calls, callIn.config.windowMs, j) = j

\* the scans started so far for the searches of one user
ScansStarted(email) ==
    SelectSeq(served, LAMBDA q : q.status = 200 /\ q.email = email)

\* C35: no more than 5 manual scans of one user's searches are started
\* within any period of one hour, whatever addresses the requests come from:
\* the sixth scan after any scan starts at least an hour after it
C35_FiveScansPerHour ==
    callIn.fn = "POST /api/searches/[id]" =>
        \A id \in ManualTargets :
            LET started == ScansStarted(UserEmail(id))
            IN \A k \in 1..(Len(started) - SCAN_MAX_REQUESTS) :
                 started[k + SCAN_MAX_REQUESTS].at - started[k].at
                     >= RATE_LIMITS.scan.windowMs

----------------------------------------------------------------------------
(* The searches of an account *)

\* C36: no user ever has more than 10 active searches, whatever creations,
\* activation toggles and deletions were served
C36_AtMostTenActive ==
    callIn.fn = "account" =>
        \A email \in Emails : ActiveSearchCount(email) <= MAX_ACTIVE_SEARCHES

----------------------------------------------------------------------------
(* The chat *)

\* the searches the requests of the conversation have created
SearchesCreated ==
    {k \in 1..Len(served) : served[k].searchId # 0}

\* C37: a conversation creates at most one Search: once it is complete and
\* its Search exists, further messages create no other
C37_OneSearchPerConversation ==
    callIn.fn = "POST /api/chat" => Cardinality(SearchesCreated) <= 1

----------------------------------------------------------------------------
(* Scans of a search that was switched off or deleted *)

\* the search takes part in scans: its row exists and is active
Scannable(id) == searches[id].exists /\ searches[id].isActive

\* C38: once a search is deactivated or deleted, no Listing row is created
\* for it and no email is sent for it, even if a scan of it was under way
C38_NoWorkForStoppedSearch ==
    [][/\ \A r \in listingTbl' \ listingTbl : Scannable(r.searchId)
       /\ \A m \in emails' \ emails : Scannable(m.searchId)]_vars

----------------------------------------------------------------------------
(* Closing the browser *)

\* task p is between browser.newContext() and context.close() on browser b
UsesBrowser(p, b) == loc[p].context = "open" /\ loc[p].browser = b

\* C39: the browser is never closed while an acquisition is using it: no
\* closeBrowser at the end of a sweep runs while any scan is between opening
\* its browser context and closing it
C39_NoCloseUnderAcquisition ==
    [][\A b \in openBrowsers \ openBrowsers' :
          \A p \in Proc : ~UsesBrowser(p, b)]_vars

====
